---- MODULE Spec2Model ----
(***************************************************************************)
(* A model of openQ: the job hand-off daemon (daemon.py), its admission    *)
(* check, and the staleness-bounded qstat cache (qstat_base.py).           *)
(*                                                                         *)
(*   Spec      the hand-off protocol: several daemon processes, one per    *)
(*             user, working on the same inbox/staging/submitted           *)
(*             directories; the records qstat.jobs returns are inputs.     *)
(*   SpecFull  Daemon.full's verdict as a function of the record list.     *)
(*   SpecCache one QstatBase object with its cache files and clock, and    *)
(*             Daemon.full reading through it.                             *)
(***************************************************************************)
EXTENDS Integers, Sequences, FiniteSets, TLC

VARIABLES
    \* ---- the filesystem and the daemon processes (Spec)
    loc,            \* loc[f]: the directories job file f is present in
    pc,             \* pc[d]: position of daemon process d in serve_forever
    jobs,           \* jobs[d]: do_some_work's local pool `jobs`
    cur,            \* cur[d]: the job qsub was called with
    dest,           \* dest[d]: qsub's local dest_filepath
    submitted,      \* submitted[d]: do_some_work's local counter
    free,           \* free[d]: do_some_work's local `free`
    queue_status,   \* queue_status[d]: Daemon.queue_status
    exc,            \* exc[d]: the exception in flight in qsub's try block
    ret,            \* ret[d]: what the last qsub call returned
    n_run, n_queue, \* the limits read by reconfigure
    info,           \* info[f]: the records on f in the owner's qsub_info directory
    arg,            \* arg[d]: the path the submit command of d's qsub was given,
                    \* <<>> when it has not been run
    \* ---- history of the hand-off (Spec)
    submit_ok,      \* submit_ok[f]: the submit command exited 0 on f
    claimRes,       \* claimRes[d]: how the claim move of d's last qsub ended
    finalRaised,    \* finalRaised[d]: the final move of d's last qsub raised
    verdict,        \* verdict[d]: what self.full gave in d's current cycle
    \* ---- Daemon.full as a function (SpecFull)
    fin,            \* the inputs: two reads of qstat.jobs, user, limits
    fout,           \* what Daemon.full gave on them
    \* ---- one QstatBase object, its cache files and the clock (SpecCache)
    now,            \* time()
    stale_sec,      \* QstatBase.stale_sec
    qs,             \* the object: _xml, _xml_mtime, _jobs, _jobs_mtime
    xml_file,       \* the file at xml_fpath: missing, or its data and mtime
    jobs_file,      \* the file at jobs_fpath: missing, or its data and mtime
    \* ---- history of the cache (SpecCache)
    xlog,           \* the last access of the xml property, and the last two
    jlast,          \* the read of the jobs property the last step ended with
    fres,           \* the evaluation of Daemon.full the last step made
    \* ---- QstatBase.parse_xml as a function (SpecParse)
    pin,            \* the jobs of the listing, as the XML gives them
    pout,           \* what parse_xml gave on them
    \* ---- one pick of do_some_work as a function (SpecPick)
    kin,            \* the list `jobs` before the pick
    kout,           \* the index drawn, the entry popped, the list left
    \* ---- do_some_work over drawn job directories (SpecScan)
    sin,            \* self.users, the users' job directories, free
    sout,           \* the list found, the loop's position and its qsub calls
    \* ---- one move of qsub over drawn directory contents (SpecMove)
    movin,          \* what the name holds in each directory, and the move
    movout,         \* what it holds after the move, and whether it raised
    \* ---- one daemon's serve_forever loop and its configuration (SpecLoop)
    clk,            \* time()
    cfg,            \* the configuration file: there or not, mtime, content
    dm,             \* the Daemon object and its position in serve_forever
    pidf,           \* the files ~/.pid and ~/.pid.bak
    lg              \* history of the loop: the cycle's values, the last reconfigure

hvars == <<loc, pc, jobs, cur, dest, submitted, free, queue_status, exc, ret,
           n_run, n_queue, info, arg, submit_ok, claimRes, finalRaised,
           verdict>>

fvars == <<fin, fout>>

cvars == <<now, stale_sec, qs, xml_file, jobs_file, xlog, jlast, fres>>

pvars == <<pin, pout>>

kvars == <<kin, kout, sin, sout, movin, movout>>

lvars == <<clk, cfg, dm, pidf, lg>>

vars == <<hvars, fvars, cvars, pvars, kvars, lvars>>

----------------------------------------------------------------------------
(* Bounds and the finite universe.                                         *)

MaxLimit == 2       \* n_run and n_queue range over 1..MaxLimit

None == "None"

Users == {"u1", "u2"}
Daemons == {"d1", "d2"}
\* Each daemon process runs as one user of the configured list.
MyUserName(d) == IF d = "d1" THEN "u1" ELSE "u2"

Files == {"a.pbs", "b.pbs"}
\* The owner's inbox a job file was dropped in.
Owner(f) == IF f = "a.pbs" THEN "u1" ELSE "u2"

\* The kinds of per-owner directory of the [Directories] config section.
Dirs == {"job", "tmp", "sub"}

\* One record of parse_xml's output, cut down to the fields Daemon.full reads.
Rec(c, q, o, s) == [cluster |-> c, queue |-> q, job_owner |-> o, job_state |-> s]

\* The record lists qstat.jobs hands to the daemons in Spec.
SnapshotLists ==
    { <<>>,
      << Rec("aci", "open", "u1", "R") >>,
      << Rec("aci", "open", "u1", "R"), Rec("aci", "open", "u2", "R") >>,
      << Rec("aci", "open", "u2", "Q"), Rec("aci", "open", "u1", "Q") >> }

\* What one read of the qstat.jobs property gives: a list, or an exception.
ReadResults ==
    { [raised |-> TRUE, recs |-> <<>>] } \cup
    { [raised |-> FALSE, recs |-> s] : s \in SnapshotLists }

----------------------------------------------------------------------------
(* Variants of single decisions of the code, each differing from the code  *)
(* in one place; the properties below tell the code from them.             *)

\* serve_forever calling do_some_work whatever self.full said.
AfterFullIgnored(full) == "scan"

\* qsub going on to the submit command whether or not the claim move raised.
AfterClaimIgnored(raised) == "submit"

\* do_some_work going round its loop again after a failed claim move.
AfterClaimRetry(raised) == IF raised THEN "pick" ELSE "submit"

\* qsub without "dest_filepath = orig_job_filepath" in the handler.
DestNeverReset(outcome) == "sub"

\* The finally block of qsub without its "except (IOError, OSError)".
FinallyRaisesMoveError(inflight, moveRaised) ==
    IF moveRaised THEN "OSError" ELSE inflight

\* do_some_work's loop with "while submitted <= free".
LoopGoesOnInclusive(nsubmitted, nfree, pool) ==
    nsubmitted <= nfree /\ pool # {}

\* The if/elif/else on account_name with an else that takes the account
\* for a queue of ACI.
ResolveAccountDefaulting(account_name) ==
    IF account_name = "cyberlamp"
    THEN [exn |-> None, cluster |-> "cyberlamp", queue |-> "default"]
    ELSE [exn |-> None, cluster |-> "aci", queue |-> account_name]

\* A failed `qstat -x` still stamping the value in memory with time().
QstatFailedStamped(c, q) == [c EXCEPT !.calls = @ + 1, !.out = q,
                                      !.xml_mtime = c.now]

\* dest_filepath set to the original path whatever the submit command did.
DestAlwaysReset(outcome) == "job"

\* isfile taking every entry of the directory for a file.
IsFileAny(box, i) == box.entries[i] # "absent"

\* list.pop leaving the entry in the list.
PopKeep(pool, idx) == [item |-> pool[idx + 1], rest |-> pool]

\* The xml property leaving _jobs as it is.
InvalidateJobsNot(c) == c

\* The submit command given the path of the file in the inbox.
SubmitPathInbox(f) == <<"job", f>>

\* reconfigure reading the file again when its mtime is the recorded one.
ConfigIsNewOrSame(file_mtime, recorded) == file_mtime >= recorded

\* reconfigure giving up when the grace period is just reached.
GraceIsOverInclusive(dt_sec) == dt_sec >= 3600

\* serve_forever with reconfigure and upgrade before do_some_work.
StepAfterReconfigureFirst(pos, full) ==
    IF pos = "full" THEN "reconfigure"
    ELSE IF pos = "reconfigure" THEN "upgrade"
    ELSE IF pos = "upgrade" THEN "scan"
    ELSE IF pos = "scan" THEN "sleep"
    ELSE "full"

\* randint taken for a half-open range, as random.randrange is.
RandIntHalfOpen(a, b) == a..(b - 1)

\* The xml property without its test of the username.
MayRunQstatAnyone(c) == TRUE

\* parse_xml taking no output for a listing without jobs.
ParseFailsUnlessEmpty(snap) == snap = "malformed"

\* The decision with "<=" in place of "<".
QueueIsFullInclusive(running, queued, nrun, nqueue) ==
    IF running <= nrun /\ queued <= nqueue THEN FALSE ELSE TRUE

\* xml_is_stale one second early.
XmlIsStaleEarly(c) ==
    c.xml = <<>> \/ c.now - c.xml_mtime >= c.stale_sec - 1

\* jobs_file_is_stale looking at the jobs cache file alone.
JobsFileIsStaleAlone(c) ==
    \/ ~c.cache_dir
    \/ c.jobs_file = <<>>
    \/ c.now - c.jobs_file[1].mtime >= c.stale_sec

----------------------------------------------------------------------------
(* utils.rename_or_move                                                    *)

\* How a move of a file present in the directories `at` can end: "ok"
\* (os.rename went through, or shutil.move did after it failed) or "fail"
\* (os.rename raised and so did shutil.move: IOError or OSError reaches
\* the caller).  A source that is not there leaves only "fail".  The move
\* is taken as one step of the filesystem.
MoveOutcomes(at, src) ==
    IF src \in at THEN {"ok", "fail"} ELSE {"fail"}

RenameOrMove(at, src, dst, oc) ==
    IF oc = "ok"
    THEN [at |-> (at \ {src}) \cup {dst}, raised |-> FALSE]
    ELSE [at |-> at, raised |-> TRUE]

----------------------------------------------------------------------------
(* Daemon.full                                                             *)

RECURSIVE CountJobs(_, _, _)
\* The loop over the records: the counters after the whole list.
CountJobs(recs, me, acc) ==
    IF recs = <<>> THEN acc
    ELSE LET job == Head(recs)
             nxt == IF \/ job.cluster # "aci"
                       \/ job.queue # "open"
                       \/ job.job_owner # me
                    THEN acc
                    ELSE IF job.job_state = "R"
                         THEN [acc EXCEPT !.r = @ + 1]
                    ELSE IF job.job_state = "Q"
                         THEN [acc EXCEPT !.q = @ + 1]
                    ELSE [acc EXCEPT !.o = @ + 1]
         IN  CountJobs(Tail(recs), me, nxt)

\* Daemon.queue_status as __init__ leaves it.
NoStatus == [q |-> 0, r |-> 0, o |-> 0]

\* "decide if queue is full"
QueueIsFull(running, queued, nrun, nqueue) ==
    IF running < nrun /\ queued < nqueue THEN FALSE ELSE TRUE

\* The property, given what its two reads of self.qstat.jobs give.  The first
\* read is inside the try block, the second (the loop's iterable) is not.
Full(read1, read2, me, nrun, nqueue, qstatus) ==
    IF read1.raised
    THEN [raised |-> FALSE, val |-> TRUE, queue_status |-> qstatus]
    ELSE IF read2.raised
    THEN [raised |-> TRUE, val |-> TRUE, queue_status |-> qstatus]
    ELSE LET cnt == CountJobs(read2.recs, me, [q |-> 0, r |-> 0, o |-> 0])
         IN  [raised |-> FALSE,
              val |-> QueueIsFull(cnt.r, cnt.q, nrun, nqueue),
              queue_status |-> cnt]

----------------------------------------------------------------------------
(* Daemon.full on drawn record lists (SpecFull)                            *)

MaxJobs == 3        \* the record lists of SpecFull have up to MaxJobs records

\* The kinds of record that matter to the filter and the counters: the
\* daemon's cluster and queue in the three kinds of state, another owner,
\* another queue of the cluster, and the other cluster.
RecordKinds ==
    { Rec("aci", "open", "u1", st) : st \in {"R", "Q", "H"} } \cup
    { Rec("aci", "open", "u2", "R"),
      Rec("aci", "dfc13_a_g_sc_default", "u1", "R"),
      Rec("cyberlamp", "default", "u1", "Q") }

RecordLists ==
    UNION { [1..n -> RecordKinds] : n \in 0..MaxJobs }

FullInputs ==
    [ read1 : ReadResults,
      read2 : { [raised |-> TRUE, recs |-> <<>>] } \cup
              { [raised |-> FALSE, recs |-> l] : l \in RecordLists },
      me : {"u1"} ]

NoOutcome ==
    [done |-> FALSE, raised |-> FALSE, val |-> FALSE, queue_status |-> NoStatus]

FullIdle ==
    /\ fin = [read1 |-> [raised |-> TRUE, recs |-> <<>>],
              read2 |-> [raised |-> TRUE, recs |-> <<>>], me |-> "u1"]
    /\ fout = NoOutcome

\* One evaluation of the property on the drawn inputs.
EvalFull ==
    /\ ~fout.done
    /\ LET out == Full(fin.read1, fin.read2, fin.me, n_run, n_queue, NoStatus)
       IN  fout' = [done |-> TRUE, raised |-> out.raised, val |-> out.val,
                    queue_status |-> out.queue_status]
    /\ UNCHANGED <<fin, hvars, cvars, pvars, kvars, lvars>>

----------------------------------------------------------------------------
(* QstatBase.parse_xml: cluster and queue of each job (SpecParse)           *)

MaxRaw == 2

ACI_QUEUES == {"dfc13_a_g_sc_default", "dfc13_a_t_bc_default", "open"}

\* str.lower on the account names of the model.
Lower(str) == IF str = "OPEN" THEN "open" ELSE str

\* str.endswith('aci.ics.psu.edu') on the server names of the model.
EndsWithAci(server) == server = "torque01.util.production.int.aci.ics.psu.edu"

\* The jobs of a listing, as far as cluster and queue depend on them: the
\* text of Account_Name (None without the tag), the text of server, and
\* Resource_List: no such node, or the node with the text of its qos (None
\* without the tag).
RawJobs ==
    { [account_name |-> a, server |-> sv, resource_list |-> rl] :
        a \in {"cyberlamp", "open", "dfc13_a_g_sc_default", "OPEN", "hprc",
               None},
        sv \in {"torque01.util.production.int.aci.ics.psu.edu",
                "lionxv.rcc.psu.edu"},
        rl \in {<<>>, << None >>, << "cl_gpu" >>} }

RawLists ==
    UNION { [1..n -> RawJobs] : n \in 0..MaxRaw }

\* The if/elif/else on account_name.
ResolveAccount(account_name) ==
    IF account_name = "cyberlamp"
    THEN [exn |-> None, cluster |-> "cyberlamp", queue |-> "default"]
    ELSE IF account_name \in ACI_QUEUES
    THEN [exn |-> None, cluster |-> "aci", queue |-> Lower(account_name)]
    ELSE [exn |-> "ValueError", cluster |-> None, queue |-> None]

\* The end of the `if resource_list is not None` block: the queue of a
\* cyberlamp job seen through the ACI server is its qos.
ResolveQos(rec, job) ==
    IF job.resource_list # <<>> /\ EndsWithAci(job.server)
       /\ rec.cluster = "cyberlamp"
    THEN LET qos == job.resource_list[1] IN
         IF qos = None THEN [rec EXCEPT !.queue = "default"]
         ELSE [rec EXCEPT !.queue = qos]
    ELSE rec

RECURSIVE ParseJobs(_, _)
\* The loop over the jobs of the listing: `recs` is the list `jobs` so far.
\* An exception ends the call, and the list with it.
ParseJobs(raw, recs) ==
    IF raw = <<>> THEN [exn |-> None, val |-> recs]
    ELSE LET job == Head(raw)
             acct == ResolveAccount(job.account_name)
         IN  IF acct.exn # None THEN [exn |-> acct.exn, val |-> <<>>]
             ELSE LET rec == ResolveQos([cluster |-> acct.cluster,
                                         queue |-> acct.queue], job)
                  IN  ParseJobs(Tail(raw), Append(recs, rec))

NoParse == [done |-> FALSE, exn |-> None, val |-> <<>>]

ParseIdle ==
    /\ pin = <<>>
    /\ pout = NoParse

\* One call of parse_xml on the drawn listing.
EvalParse ==
    /\ ~pout.done
    /\ LET out == ParseJobs(pin, <<>>)
       IN  pout' = [done |-> TRUE, exn |-> out.exn, val |-> out.val]
    /\ UNCHANGED <<pin, hvars, fvars, cvars, kvars, lvars>>

----------------------------------------------------------------------------
(* do_some_work: the pool and one pick from it (SpecPick)                  *)

MaxPending == 2

\* self.users of the picks, in the order of the configuration.
PickUsers == <<"u1", "u2", "u3", "u4">>

\* The outcomes of random.randint(a, b), each as likely as any other:
\* a <= N <= b.
RandInt(a, b) == a..b

RECURSIVE ScanPool(_, _)
\* The loop over self.users: the files of each user's job directory are
\* appended to the list, `pending[u]` of them for user u.
ScanPool(users, pending) ==
    IF users = <<>> THEN <<>>
    ELSE LET usr == Head(users) IN
         [i \in 1..pending[usr] |-> <<usr, i>>]
             \o ScanPool(Tail(users), pending)

\* The lists do_some_work can be picking from.
Pools ==
    { ScanPool(PickUsers, pending) :
        pending \in [{"u1", "u2", "u3", "u4"} -> 0..MaxPending] }

\* list.pop(idx): the entry at idx (counted from 0) and the list without it.
Pop(pool, idx) ==
    [item |-> pool[idx + 1],
     rest |-> SubSeq(pool, 1, idx) \o SubSeq(pool, idx + 2, Len(pool))]

NoPick == [done |-> FALSE, idx |-> 0, item |-> <<>>, rest |-> <<>>]

----------------------------------------------------------------------------
(* One move of Daemon.qsub over what the directories hold (SpecMove)       *)

\* The three directories of an owner.
Places == {"job", "tmp", "sub"}

\* What the job's name can hold in a directory: nothing, or one of the job
\* files the owner has written under that name.
Contents3 == {"none", "first", "second", "third"}

\* The moves of qsub by source and destination: the claim, and the final
\* move with dest_filepath the submitted path or the job path.
QsubMoves ==
    { [name |-> "claim", src |-> "job", dst |-> "tmp"],
      [name |-> "archive", src |-> "tmp", dst |-> "sub"],
      [name |-> "rollback", src |-> "tmp", dst |-> "job"] }

\* rename_or_move(src, dest) on one name: os.rename puts the source under
\* the destination name, in the place of a file that is there; without a
\* source, or when shutil.move fails as well, the exception reaches the
\* caller and nothing has moved.
RenameOver(dirs, src, dst, oc) ==
    IF dirs[src] = "none" \/ oc = "fail"
    THEN [dirs |-> dirs, raised |-> TRUE]
    ELSE [dirs |-> [dirs EXCEPT ![dst] = dirs[src], ![src] = "none"],
          raised |-> FALSE]

MoveInputs ==
    [ dirs : [Places -> Contents3], move : QsubMoves ]

NoMove ==
    [done |-> FALSE, raised |-> FALSE, dirs |-> [p \in Places |-> "none"]]

MoveIdle ==
    /\ movin = [dirs |-> [p \in Places |-> "none"],
                move |-> [name |-> "claim", src |-> "job", dst |-> "tmp"]]
    /\ movout = NoMove

\* qsub makes the move.
EvalMove ==
    /\ ~movout.done
    /\ \E oc \in {"ok", "fail"} :
         LET mv == RenameOver(movin.dirs, movin.move.src, movin.move.dst, oc)
         IN  movout' = [done |-> TRUE, raised |-> mv.raised, dirs |-> mv.dirs]
    /\ UNCHANGED <<movin, kin, kout, sin, sout, hvars, fvars, cvars, pvars,
                   lvars>>

----------------------------------------------------------------------------
(* Daemon.do_some_work over drawn job directories (SpecScan)               *)

MaxFree == 2        \* free ranges over 1..MaxFree

\* The names a job directory may hold, in the order listdir gives them.
ScanNames == <<"a.pbs", "b.pbs">>

ScanUsers == {"u1", "u2", "u3"}

\* self.users as the configuration can give it.
UserLists == { <<"u1">>, <<"u1", "u2">>, <<"u2", "u1", "u3">> }

\* A user's job directory path: not a directory (`isdir` false: nothing
\* there, or a file), or a directory in which each name is absent, a
\* regular file, or a directory.
Inboxes ==
    { [isdir |-> FALSE, entries |-> [i \in 1..Len(ScanNames) |-> "absent"]] }
    \cup { [isdir |-> TRUE, entries |-> e] :
              e \in [1..Len(ScanNames) -> {"absent", "file", "dir"}] }

\* isdir(dirpath)
IsDir(box) == box.isdir

\* isfile(join(dirpath, f)) for the i-th name
IsFile(box, i) == box.entries[i] = "file"

RECURSIVE ListFiles(_, _, _)
\* "(usr, f) for f in listdir(dirpath) if isfile(join(dirpath, f))", from
\* the i-th name on.
ListFiles(usr, box, i) ==
    IF i > Len(ScanNames) THEN <<>>
    ELSE IF box.entries[i] = "absent" THEN ListFiles(usr, box, i + 1)
    ELSE (IF IsFile(box, i) THEN << <<usr, ScanNames[i]>> >> ELSE <<>>)
             \o ListFiles(usr, box, i + 1)

RECURSIVE ScanInboxes(_, _)
\* The loop over self.users: a user whose dirpath is no directory is
\* skipped, the files of the others are appended to the list.
ScanInboxes(users, tree) ==
    IF users = <<>> THEN <<>>
    ELSE LET usr == Head(users) IN
         (IF ~IsDir(tree[usr]) THEN <<>> ELSE ListFiles(usr, tree[usr], 1))
             \o ScanInboxes(Tail(users), tree)

ScanInputs ==
    [ users : UserLists, tree : [ScanUsers -> Inboxes], free : 1..MaxFree ]

\* do_some_work not yet called; once called, `pos` is "loop" at the head of
\* the while loop and "returned" after it, `found` is the list as the scan
\* left it, `jobs` the list now, `early` tells the return at "no jobs!",
\* `tried` lists the entries qsub was called with.
NoScan ==
    [pos |-> "start", found |-> <<>>, jobs |-> <<>>, early |-> FALSE,
     submitted |-> 0, tried |-> <<>>]

ScanIdle ==
    /\ sin = [users |-> <<"u1">>,
              tree |-> [u \in ScanUsers |->
                          [isdir |-> FALSE,
                           entries |-> [i \in 1..Len(ScanNames) |-> "absent"]]],
              free |-> 1]
    /\ sout = NoScan

\* do_some_work up to the while loop.
EvalScan ==
    /\ sout.pos = "start"
    /\ LET found == ScanInboxes(sin.users, sin.tree) IN
       sout' = IF found = <<>>
               THEN [NoScan EXCEPT !.pos = "returned", !.early = TRUE]
               ELSE [NoScan EXCEPT !.pos = "loop", !.found = found,
                                   !.jobs = found]
    /\ UNCHANGED <<sin, kin, kout, movin, movout, hvars, fvars, cvars, pvars,
                   lvars>>

\* One round of "while submitted < free": break on an empty list, pop a
\* random entry, call qsub on it; qsub returns True or False.
ScanLoop ==
    /\ sout.pos = "loop"
    /\ IF ~(sout.submitted < sin.free) \/ Len(sout.jobs) = 0
       THEN sout' = [sout EXCEPT !.pos = "returned"]
       ELSE \E idx \in RandInt(0, Len(sout.jobs) - 1), ok \in BOOLEAN :
              LET out == Pop(sout.jobs, idx) IN
              sout' = [sout EXCEPT
                         !.jobs = out.rest,
                         !.tried = Append(@, out.item),
                         !.submitted = IF ok THEN @ + 1 ELSE @,
                         !.pos = IF ok THEN "loop" ELSE "returned"]
    /\ UNCHANGED <<sin, kin, kout, movin, movout, hvars, fvars, cvars, pvars,
                   lvars>>

PickIdle ==
    /\ kin = <<>>
    /\ kout = NoPick
    /\ ScanIdle
    /\ MoveIdle

\* One round of the loop on the drawn list: "idx = randint(0, n_jobs - 1)"
\* and "jobs.pop(idx)"; the loop breaks on an empty list.
EvalPick ==
    /\ ~kout.done
    /\ Len(kin) # 0
    /\ \E idx \in RandInt(0, Len(kin) - 1) :
         LET out == Pop(kin, idx)
         IN  kout' = [done |-> TRUE, idx |-> idx, item |-> out.item,
                      rest |-> out.rest]
    /\ UNCHANGED <<kin, sin, sout, movin, movout, hvars, fvars, cvars, pvars,
                   lvars>>

----------------------------------------------------------------------------
(* QstatBase: the xml and jobs properties over memory, cache files, clock  *)

MaxStale == 2       \* stale_sec ranges over 0..MaxStale
MaxTime == MaxStale \* nothing happens once the clock is past MaxTime
MAX_ATTEMPTS == 15
RetrySleep == 5     \* "sleep(5)" in the retry loop of jobs
NegInf == -1        \* float('-inf'): below every time of the clock

\* What `qstat -x` can print: one running job of user u2 in the open queue,
\* text that is not well-formed XML (a listing cut short), or nothing.
Snapshots == {"u2job", "malformed", "empty"}

\* ElementTree.fromstring raises ParseError on text that is not a
\* well-formed document, the empty string included.
ParseFails(snap) == snap \in {"malformed", "empty"}

\* parse_xml on the well-formed output.
ParseXml(snap) ==
    IF snap = "u2job" THEN << Rec("aci", "open", "u2", "R") >> ELSE <<>>

\* What the cache directory does to one access: whether the cache files
\* can be read (GzipFile read, pickle.load), how many writes of the xml
\* cache file fail before one goes through, whether os.utime goes through.
\* One thing goes wrong at a time.
Filesystems ==
    { [rd |-> TRUE, wrfail |-> 0, ut |-> TRUE],
      [rd |-> FALSE, wrfail |-> 0, ut |-> TRUE],
      [rd |-> TRUE, wrfail |-> 1, ut |-> TRUE],
      [rd |-> TRUE, wrfail |-> MAX_ATTEMPTS, ut |-> TRUE],
      [rd |-> TRUE, wrfail |-> 0, ut |-> FALSE] }

\* What the environment does to one access: the cache directory, and how
\* `qstat -x` ends.  A fault of the cache directory comes with a good
\* listing, a bad end of `qstat -x` with a cache directory that works.
Environments ==
    { [rd |-> fs.rd, wrfail |-> fs.wrfail, ut |-> fs.ut, q |-> "u2job"] :
        fs \in Filesystems }
    \cup { [rd |-> TRUE, wrfail |-> 0, ut |-> TRUE, q |-> q] :
             q \in {"CalledProcessError"} \cup Snapshots }

\* A QstatBase object just constructed: `foreign` says that its username
\* is not the user of the process, `cache_dir` that it was given a cache
\* directory.
NewQstatFor(foreign, cache_dir) ==
    [xml |-> <<>>, xml_mtime |-> NegInf, jobs |-> <<>>, jobs_mtime |-> NegInf,
     foreign |-> foreign, cache_dir |-> cache_dir]

\* The object of the daemon: its own user, with qstat_cache_dir.
NewQstat == NewQstatFor(FALSE, TRUE)

\* QstatBase.__init__: the exception it raises if any, and the object.
QstatInit(foreign, cache_dir) ==
    IF foreign /\ ~cache_dir
    THEN [exn |-> "ValueError", obj |-> <<>>]
    ELSE [exn |-> None, obj |-> << NewQstatFor(foreign, cache_dir) >>]

\* The test before check_output in the xml property: only the user of the
\* process can be asked about.
MayRunQstat(c) == ~c.foreign

\* No access of the xml property yet.
NoAccess == [real |-> FALSE, t |-> 0, calls |-> 0, exn |-> None]

\* No two accesses of the xml property yet.
NoPair ==
    [real |-> FALSE, gap |-> 0, inval |-> FALSE,
     calls1 |-> 0, exn1 |-> None, calls2 |-> 0]

\* The object, the files and the clock in one record, as the properties see
\* them; xml_mtime and jobs_mtime are what the properties of these names
\* give (-inf while the value is None); `last`, `inval` and `pair` are the
\* history of the xml accesses; `calls`, `out` and `attempts` tell of the
\* read under way how often it ran `qstat -x`, what the command gave last,
\* and how many times it called parse_xml(self.xml).
Cache ==
    [ now |-> now, stale_sec |-> stale_sec,
      xml |-> qs.xml, xml_mtime |-> qs.xml_mtime,
      jobs |-> qs.jobs, jobs_mtime |-> qs.jobs_mtime,
      foreign |-> qs.foreign, cache_dir |-> qs.cache_dir,
      xml_file |-> xml_file, jobs_file |-> jobs_file,
      last |-> xlog.last, inval |-> xlog.inval, pair |-> NoPair,
      calls |-> 0, out |-> "none", attempts |-> 0, rep |-> FALSE ]

XmlIsStale(c) ==
    c.xml = <<>> \/ c.now - c.xml_mtime >= c.stale_sec

JobsIsStale(c) ==
    c.jobs = <<>> \/ c.now - c.jobs_mtime >= c.stale_sec

XmlFileIsStale(c) ==
    \/ ~c.cache_dir
    \/ c.xml_file = <<>>
    \/ c.now - c.xml_file[1].mtime >= c.stale_sec

JobsFileIsStale(c) ==
    LET jf_is_stale ==
          \/ ~c.cache_dir
          \/ c.jobs_file = <<>>
          \/ c.now - c.jobs_file[1].mtime >= c.stale_sec
    IN  XmlFileIsStale(c) \/ jf_is_stale

\* The xml_file_mtime property.
XmlFileMtime(c) ==
    IF ~c.cache_dir \/ c.xml_file = <<>> THEN NegInf
    ELSE c.xml_file[1].mtime

\* One access of the xml property ends: it goes into the history, as the
\* last access, and as the second of a pair with the access before it:
\* the time between the two, whether _xml was set to None between them, and
\* how often each ran `qstat -x`.
Accessed(c, calls, exn) ==
    [c EXCEPT !.last = [real |-> TRUE, t |-> c.now, calls |-> calls,
                        exn |-> exn],
              !.pair = [real |-> c.last.real, gap |-> c.now - c.last.t,
                        inval |-> c.inval, calls1 |-> c.last.calls,
                        exn1 |-> c.last.exn, calls2 |-> calls],
              !.inval = FALSE]

\* check_output(['qstat', '-x']) was called and ended as q.
Ran(c, q) == [c EXCEPT !.calls = @ + 1, !.out = q]

\* "self._jobs = None" in the xml property; the time stamp of the records
\* is never read while _jobs is None, and is kept at its initial value.
InvalidateJobs(c) == [c EXCEPT !.jobs = <<>>, !.jobs_mtime = NegInf]

\* check_output(['qstat', '-x']) raised: the assignment to _xml does not
\* take place, and nothing after it is run.
QstatFailed(c, q) == Ran(c, q)

\* The xml property: the object after it, the exception it raised if any,
\* and the value it returned.  `rep` tells that _xml was assigned.
Xml(c, env) ==
    IF ~XmlIsStale(c)
    THEN [c |-> Accessed(c, 0, None), exn |-> None, val |-> c.xml]
    ELSE LET c1 == InvalidateJobs(c) IN
         IF ~XmlFileIsStale(c1) /\ env.rd
         THEN LET c2 == [c1 EXCEPT !.xml = << c1.xml_file[1].data >>,
                                   !.xml_mtime = XmlFileMtime(c1),
                                   !.rep = TRUE]
              IN  [c |-> Accessed(c2, 0, None), exn |-> None, val |-> c2.xml]
         ELSE IF ~MayRunQstat(c1)
         THEN [c |-> Accessed(c1, 0, "ValueError"),
               exn |-> "ValueError", val |-> <<>>]
         ELSE IF env.q = "CalledProcessError"
         THEN [c |-> Accessed(QstatFailed(c1, env.q), 1, "CalledProcessError"),
               exn |-> "CalledProcessError", val |-> <<>>]
         ELSE LET x == [snap |-> env.q, born |-> c1.now]
                  c3 == [Ran(c1, env.q) EXCEPT !.xml = <<x>>,
                                               !.xml_mtime = c1.now,
                                               !.rep = TRUE]
                  c4 == [c3 EXCEPT !.xml_file =
                                      << [data |-> x, mtime |-> c3.now] >>]
              IN  IF ~c1.cache_dir
                  THEN [c |-> Accessed(c3, 1, None),
                        exn |-> None, val |-> <<x>>]
                  ELSE IF env.wrfail > 0
                  THEN [c |-> Accessed(c3, 1, "IOError"),
                        exn |-> "IOError", val |-> <<>>]
                  ELSE [c |-> Accessed(c4, 1, None),
                        exn |-> None, val |-> <<x>>]

\* The end of the jobs property once parse_xml has returned: the time
\* stamp and, with a cache directory, the dump to the jobs cache file and
\* its mtime set to the xml file's.
StoreJobs(c, x, env) ==
    LET j == [recs |-> ParseXml(x.snap), born |-> x.born]
        c0 == [c EXCEPT !.jobs = <<j>>, !.jobs_mtime = c.now]
        c1 == [c0 EXCEPT !.jobs_file = << [data |-> j, mtime |-> c.now] >>]
        c2 == [c1 EXCEPT !.jobs_file[1].mtime = XmlFileMtime(c1)]
    IN  IF ~c.cache_dir
        THEN [c |-> c0, exn |-> None, val |-> <<j>>, src |-> "parse"]
        ELSE IF XmlFileMtime(c1) = NegInf
        THEN [c |-> c1, exn |-> "OverflowError", val |-> <<>>, src |-> "parse"]
        ELSE [c |-> IF env.ut THEN c2 ELSE c1,
              exn |-> None, val |-> <<j>>, src |-> "parse"]

RECURSIVE ParseLoop(_, _, _)
\* The "while True" loop of the jobs property, in its attempt number
\* `attempts`: parse_xml(self.xml), retried after an IOError.
ParseLoop(c, env, attempts) ==
    LET x == Xml([c EXCEPT !.attempts = attempts], env) IN
    IF x.exn = "IOError"
    THEN LET c1 == [x.c EXCEPT !.xml = <<>>, !.xml_mtime = NegInf,
                               !.inval = TRUE] IN
         IF attempts >= MAX_ATTEMPTS
         THEN [c |-> c1, exn |-> "IOError", val |-> <<>>, src |-> "parse"]
         ELSE ParseLoop([c1 EXCEPT !.now = @ + RetrySleep],
                        [env EXCEPT !.wrfail = @ - 1], attempts + 1)
    ELSE IF x.exn # None
    THEN [c |-> x.c, exn |-> x.exn, val |-> <<>>, src |-> "parse"]
    ELSE IF ParseFails(x.val[1].snap)
    THEN [c |-> x.c, exn |-> "ParseError", val |-> <<>>, src |-> "parse"]
    ELSE StoreJobs(x.c, x.val[1], env)

\* The jobs property: the object after it, the exception it raised if any,
\* the value it returned and the tier the value came from.
Jobs(c, env) ==
    IF ~JobsIsStale(c)
    THEN [c |-> c, exn |-> None, val |-> c.jobs, src |-> "memory"]
    ELSE IF ~JobsFileIsStale(c) /\ env.rd
    THEN LET c1 == [c EXCEPT !.jobs = << c.jobs_file[1].data >>,
                             !.jobs_mtime = c.jobs_file[1].mtime]
         IN  [c |-> c1, exn |-> None, val |-> c1.jobs, src |-> "file"]
    ELSE ParseLoop(c, env, 1)

\* What Daemon.full sees of one read of self.qstat.jobs.
AsRead(j) ==
    [raised |-> j.exn # None,
     recs |-> IF j.exn = None THEN j.val[1].recs ELSE <<>>]

----------------------------------------------------------------------------
(* One QstatBase object in use (SpecCache)                                 *)

\* No access yet; `ctor` tells how the construction just tried ended, `rep`
\* that the last access was one of the xml property by a client which
\* assigned _xml, and `had` that this access began with records in memory
\* that were not stale.
NoLog ==
    [last |-> NoAccess, inval |-> FALSE, pair |-> NoPair, ctor |-> "none",
     rep |-> FALSE, had |-> FALSE]

NoJobsAccess ==
    [real |-> FALSE, exn |-> None, src |-> "memory", age |-> 0,
     xfresh |-> FALSE, jfresh |-> FALSE,
     calls |-> 0, out |-> "none", attempts |-> 0, mfresh |-> FALSE]

NoFullAccess ==
    [real |-> FALSE, raised |-> FALSE, val |-> FALSE,
     exn1 |-> None, exn2 |-> None, reads |-> 0, same |-> FALSE]

CacheIdle ==
    /\ now = 0
    /\ stale_sec = 1
    /\ qs = NewQstat
    /\ xml_file = <<>>
    /\ jobs_file = <<>>
    /\ xlog = NoLog
    /\ jlast = NoJobsAccess
    /\ fres = NoFullAccess

\* The object, the files and the clock as an access left them.
CommitAs(c, rep, had) ==
    /\ now' = c.now
    /\ qs' = [xml |-> c.xml, xml_mtime |-> c.xml_mtime,
              jobs |-> c.jobs, jobs_mtime |-> c.jobs_mtime,
              foreign |-> c.foreign, cache_dir |-> c.cache_dir]
    /\ xml_file' = c.xml_file
    /\ jobs_file' = c.jobs_file
    /\ xlog' = [last |-> c.last, inval |-> c.inval, pair |-> c.pair,
                ctor |-> "none", rep |-> rep, had |-> rep /\ had]

Commit(c) == CommitAs(c, FALSE, FALSE)

\* What is remembered of one read of the jobs property that began in c:
\* how it ended, the tier its value came from, how long before the return
\* `qstat -x` had produced what the value derives from, and whether the two
\* cache files were younger than stale_sec when it began; how often it ran
\* `qstat -x`, what the command gave last, how many parse attempts it
\* made, and whether the value in memory of either property was younger
\* than stale_sec when it began.
JobsAccessed(c, j) ==
    [real |-> TRUE, exn |-> j.exn, src |-> j.src,
     age |-> IF j.exn = None THEN j.c.now - j.val[1].born ELSE 0,
     xfresh |-> ~XmlFileIsStale(c),
     jfresh |-> c.jobs_file # <<>>
                /\ c.now - c.jobs_file[1].mtime < c.stale_sec,
     calls |-> j.c.calls, out |-> j.c.out, attempts |-> j.c.attempts,
     mfresh |-> ~XmlIsStale(c) \/ ~JobsIsStale(c)]

\* time() moves on.
Tick ==
    /\ now < MaxTime
    /\ now' = now + 1
    /\ xlog' = [xlog EXCEPT !.pair = NoPair, !.ctor = "none"]
    /\ jlast' = NoJobsAccess
    /\ fres' = NoFullAccess
    /\ UNCHANGED <<stale_sec, qs, xml_file, jobs_file>>

\* reconfigure, or another process on the same cache directory: a new
\* QstatBase object over the same files, for the user of the process or
\* not, with a cache directory or not.  When __init__ raises, the object
\* there was stays.
Construct ==
    /\ now <= MaxTime
    /\ \E foreign \in BOOLEAN, cache_dir \in BOOLEAN :
         LET new == QstatInit(foreign, cache_dir) IN
         IF new.exn # None
         THEN /\ xlog.ctor = "none"
              /\ qs' = qs
              /\ xlog' = [xlog EXCEPT !.pair = NoPair, !.ctor = new.exn]
         ELSE /\ qs # new.obj[1]
              /\ qs' = new.obj[1]
              /\ xlog' = [NoLog EXCEPT !.ctor = "ok"]
    /\ jlast' = NoJobsAccess
    /\ fres' = NoFullAccess
    /\ UNCHANGED <<now, stale_sec, xml_file, jobs_file>>

\* A client reads the xml property.
XmlAccess ==
    /\ now <= MaxTime
    /\ \E env \in Environments :
         LET x == Xml(Cache, env) IN
         CommitAs(x.c, x.c.rep, ~JobsIsStale(Cache))
    /\ jlast' = NoJobsAccess
    /\ fres' = NoFullAccess
    /\ UNCHANGED stale_sec

\* A client reads the jobs property.
JobsAccess ==
    /\ now <= MaxTime
    /\ \E env \in Environments :
         LET j == Jobs(Cache, env) IN
         /\ Commit(j.c)
         /\ jlast' = JobsAccessed(Cache, j)
    /\ fres' = NoFullAccess
    /\ UNCHANGED stale_sec

\* The daemon evaluates Daemon.full: two reads of self.qstat.jobs, between
\* which the clock may move on.
FullAccess ==
    /\ now <= MaxTime
    /\ ~qs.foreign /\ qs.cache_dir
    /\ \E env \in Environments, dt \in {0, 1} :
         LET j1 == Jobs(Cache, env)
             c2 == [j1.c EXCEPT !.now = @ + dt, !.calls = 0,
                                !.out = "none", !.attempts = 0]
             j2 == Jobs(c2, env)
             twice == j1.exn = None
             out == Full(AsRead(j1), AsRead(j2), "u1", n_run, n_queue,
                         NoStatus)
         IN  /\ now + dt <= MaxTime
             /\ ~twice => dt = 0
             /\ Commit(IF twice THEN j2.c ELSE j1.c)
             /\ jlast' = IF twice THEN JobsAccessed(c2, j2)
                         ELSE JobsAccessed(Cache, j1)
             /\ fres' = [real |-> TRUE, raised |-> out.raised,
                         val |-> out.val, exn1 |-> j1.exn,
                         exn2 |-> IF twice THEN j2.exn ELSE None,
                         reads |-> IF twice THEN 2 ELSE 1,
                         same |-> twice /\ j2.exn = None /\ j2.val = j1.val]
    /\ UNCHANGED stale_sec

----------------------------------------------------------------------------
(* Daemon.serve_forever, do_some_work and qsub: one process per daemon     *)

InQsub == {"submit", "final"}      \* between the claim move and the final move
InLoop == {"full", "scan", "pick", "claim", "submit", "final", "sleep"}

\* A file sits in staging and no running qsub call holds it.
Orphaned(f) ==
    /\ "tmp" \in loc[f]
    /\ ~ \E d \in Daemons : pc[d] \in InQsub /\ cur[d] = f

\* The locals of do_some_work and qsub are gone once the cycle is over.
ForgetLocals(d) ==
    /\ jobs' = [jobs EXCEPT ![d] = {}]
    /\ cur' = [cur EXCEPT ![d] = None]
    /\ dest' = [dest EXCEPT ![d] = "sub"]
    /\ submitted' = [submitted EXCEPT ![d] = 0]
    /\ free' = [free EXCEPT ![d] = 0]
    /\ exc' = [exc EXCEPT ![d] = None]
    /\ ret' = [ret EXCEPT ![d] = FALSE]
    /\ claimRes' = [claimRes EXCEPT ![d] = "none"]
    /\ finalRaised' = [finalRaised EXCEPT ![d] = FALSE]
    /\ verdict' = [verdict EXCEPT ![d] = "none"]
    /\ arg' = [arg EXCEPT ![d] = <<>>]

\* When do_some_work returns (serve_forever goes on to sleep), its pool and
\* its free count are gone; inside the loop they stay.
LoopLocals(d, pool, nxt) ==
    /\ jobs' = [jobs EXCEPT ![d] = IF nxt = "sleep" THEN {} ELSE pool]
    /\ free' = [free EXCEPT ![d] = IF nxt = "sleep" THEN 0 ELSE @]

\* The process ends: an exception left serve_forever (cleanup, raise), or the
\* process was killed.
Exit(d) ==
    /\ pc' = [pc EXCEPT ![d] = "exited"]
    /\ queue_status' = [queue_status EXCEPT ![d] = NoStatus]
    /\ ForgetLocals(d)

\* serve_forever: "if self.full: ... else: self.do_some_work()"
AfterFull(full) == IF full THEN "sleep" ELSE "scan"

\* serve_forever evaluates self.full.
FullCheck(d) ==
    /\ pc[d] = "full"
    /\ \E read1 \in ReadResults, read2 \in ReadResults :
         LET out == Full(read1, read2, MyUserName(d), n_run, n_queue,
                         queue_status[d])
         IN  IF out.raised
             THEN Exit(d)
             ELSE /\ queue_status' = [queue_status EXCEPT ![d] = out.queue_status]
                  /\ pc' = [pc EXCEPT ![d] = AfterFull(out.val)]
                  /\ verdict' = [verdict EXCEPT ![d] =
                                   IF out.val THEN "full" ELSE "notfull"]
                  /\ UNCHANGED <<jobs, cur, dest, submitted, free, exc, ret,
                                 claimRes, finalRaised, arg>>
    /\ UNCHANGED <<loc, n_run, n_queue, info, submit_ok>>

\* do_some_work: the pool of (usr, f) over the users' job directories.
ScanJobs == { f \in Files : Owner(f) \in Users /\ "job" \in loc[f] }

\* do_some_work up to the loop: scan, "no jobs!", free.
DoSomeWork(d) ==
    /\ pc[d] = "scan"
    /\ jobs' = [jobs EXCEPT ![d] = ScanJobs]
    /\ submitted' = [submitted EXCEPT ![d] = 0]
    /\ IF ScanJobs = {}
       THEN /\ pc' = [pc EXCEPT ![d] = "sleep"]
            /\ UNCHANGED free
       ELSE /\ pc' = [pc EXCEPT ![d] = "pick"]
            /\ free' = [free EXCEPT ![d] = n_run - queue_status[d].r]
    /\ UNCHANGED <<loc, cur, dest, queue_status, exc, ret, n_run, n_queue, info,
                   arg, submit_ok, claimRes, finalRaised, verdict>>

\* "while submitted < free", and no break for an empty pool.
LoopGoesOn(nsubmitted, nfree, pool) ==
    nsubmitted < nfree /\ pool # {}

\* "idx = randint(0, n_jobs - 1)" and "jobs.pop(idx)": the entries that can
\* be drawn from the list.
Drawn(pool) == pool

\* The head of the while loop: leave it, or pop a random entry and call qsub.
Pick(d) ==
    /\ pc[d] = "pick"
    /\ IF LoopGoesOn(submitted[d], free[d], jobs[d])
       THEN \E f \in Drawn(jobs[d]) :
              /\ LoopLocals(d, jobs[d] \ {f}, "claim")
              /\ cur' = [cur EXCEPT ![d] = f]
              /\ claimRes' = [claimRes EXCEPT ![d] = "none"]
              /\ finalRaised' = [finalRaised EXCEPT ![d] = FALSE]
              /\ pc' = [pc EXCEPT ![d] = "claim"]
       ELSE /\ pc' = [pc EXCEPT ![d] = "sleep"]
            /\ LoopLocals(d, jobs[d], "sleep")
            /\ UNCHANGED <<cur, claimRes, finalRaised>>
    /\ UNCHANGED <<loc, dest, submitted, queue_status, exc, ret, n_run,
                   n_queue, info, arg, submit_ok, verdict>>

\* qsub after the claim move: "return False" (do_some_work breaks and
\* serve_forever goes to sleep) or on to the submit command.
AfterClaim(raised) == IF raised THEN "sleep" ELSE "submit"

\* qsub: the claim move from the job directory into the tmp directory.
QsubClaim(d) ==
    /\ pc[d] = "claim"
    /\ LET f == cur[d] IN
       \E oc \in MoveOutcomes(loc[f], "job") :
         LET mv == RenameOrMove(loc[f], "job", "tmp", oc) IN
         /\ loc' = [loc EXCEPT ![f] = mv.at]
         /\ pc' = [pc EXCEPT ![d] = AfterClaim(mv.raised)]
         /\ LoopLocals(d, jobs[d], AfterClaim(mv.raised))
         /\ claimRes' = [claimRes EXCEPT ![d] =
                           IF ~mv.raised THEN "won"
                           ELSE IF "job" \in loc[f] THEN "fault" ELSE "lost"]
    /\ ret' = [ret EXCEPT ![d] = FALSE]
    /\ dest' = [dest EXCEPT ![d] = "sub"]
    /\ UNCHANGED <<cur, submitted, queue_status, exc, n_run, n_queue, info,
                   arg, submit_ok, finalRaised, verdict>>

\* How check_output(['qsub', ...]) can end: exit 0, a non-zero exit
\* (CalledProcessError), or another exception (OSError: the command could
\* not be started).
SubmitOutcomes == {"ok", "CalledProcessError", "OSError"}

\* dest_filepath when the finally block is entered: set to the submitted path
\* before the try, reset to the original path by the CalledProcessError handler.
DestAfter(outcome) == IF outcome = "CalledProcessError" THEN "job" ELSE "sub"

\* The last argument of the submit command: tmp_job_filepath.
SubmitPath(f) == <<"tmp", f>>

\* qsub: the try block around the submit command.  The writes of the .err
\* and .out records into the qsub_info directory are commented out in the
\* code, so info stays as it is.
QsubSubmit(d) ==
    /\ pc[d] = "submit"
    /\ arg' = [arg EXCEPT ![d] = SubmitPath(cur[d])]
    /\ \E outcome \in SubmitOutcomes :
         /\ dest' = [dest EXCEPT ![d] = DestAfter(outcome)]
         /\ exc' = [exc EXCEPT ![d] =
                      IF outcome = "OSError" THEN "OSError" ELSE None]
         /\ ret' = [ret EXCEPT ![d] = (outcome = "ok")]
         /\ submit_ok' = [submit_ok EXCEPT ![cur[d]] = @ \/ outcome = "ok"]
    /\ pc' = [pc EXCEPT ![d] = "final"]
    /\ UNCHANGED <<loc, jobs, cur, submitted, free, queue_status, n_run,
                   n_queue, info, claimRes, finalRaised, verdict>>

\* Where control goes after the finally block: True goes round the loop,
\* False breaks out of it.
AfterQsub(r) == IF r THEN "pick" ELSE "sleep"

\* The exception that leaves the finally block: the one in flight; an
\* IOError or OSError of the final move is caught there ("WARNING: ...").
FinallyRaises(inflight, moveRaised) == inflight

\* qsub: the finally block, then the return into do_some_work's loop, or the
\* exception leaving serve_forever (cleanup, raise: the process ends, and
\* exc and finalRaised tell how).
QsubFinally(d) ==
    /\ pc[d] = "final"
    /\ LET f == cur[d] IN
       \E oc \in MoveOutcomes(loc[f], "tmp") :
         LET mv == RenameOrMove(loc[f], "tmp", dest[d], oc) IN
         /\ loc' = [loc EXCEPT ![f] = mv.at]
         /\ IF FinallyRaises(exc[d], mv.raised) # None
            THEN /\ pc' = [pc EXCEPT ![d] = "exited"]
                 /\ queue_status' = [queue_status EXCEPT ![d] = NoStatus]
                 /\ jobs' = [jobs EXCEPT ![d] = {}]
                 /\ cur' = [cur EXCEPT ![d] = None]
                 /\ dest' = [dest EXCEPT ![d] = "sub"]
                 /\ submitted' = [submitted EXCEPT ![d] = 0]
                 /\ free' = [free EXCEPT ![d] = 0]
                 /\ ret' = [ret EXCEPT ![d] = FALSE]
                 /\ claimRes' = [claimRes EXCEPT ![d] = "none"]
                 /\ verdict' = [verdict EXCEPT ![d] = "none"]
                 /\ exc' = [exc EXCEPT ![d] =
                              FinallyRaises(exc[d], mv.raised)]
                 /\ finalRaised' = [finalRaised EXCEPT ![d] = mv.raised]
            ELSE /\ finalRaised' = [finalRaised EXCEPT ![d] = mv.raised]
                 /\ pc' = [pc EXCEPT ![d] = AfterQsub(ret[d])]
                 /\ LoopLocals(d, jobs[d], AfterQsub(ret[d]))
                 /\ submitted' = [submitted EXCEPT ![d] =
                                    IF ret[d] THEN @ + 1 ELSE @]
                 /\ UNCHANGED <<cur, dest, queue_status, exc, ret,
                                claimRes, verdict>>
    /\ arg' = [arg EXCEPT ![d] = <<>>]
    /\ UNCHANGED <<n_run, n_queue, info, submit_ok>>

\* serve_forever: sleep, reconfigure, upgrade, and round again.
Sleep(d) ==
    /\ pc[d] = "sleep"
    /\ pc' = [pc EXCEPT ![d] = "full"]
    /\ ForgetLocals(d)
    /\ UNCHANGED <<loc, queue_status, n_run, n_queue, info, submit_ok>>

\* sig_handler: cleanup, then sys.exit raises SystemExit where the main
\* thread is.  Inside qsub's try block the finally block still runs.
SigHandler(d) ==
    /\ pc[d] \in InLoop
    /\ IF pc[d] = "submit"
       THEN /\ pc' = [pc EXCEPT ![d] = "final"]
            /\ exc' = [exc EXCEPT ![d] = "SystemExit"]
            /\ UNCHANGED <<jobs, cur, dest, submitted, free, queue_status,
                           ret, claimRes, finalRaised, verdict, arg>>
       ELSE Exit(d)
    /\ UNCHANGED <<loc, n_run, n_queue, info, submit_ok>>

\* SIGKILL ("kill -9 ... we can't catch this"): the process is gone at once.
Kill(d) ==
    /\ pc[d] \in InLoop
    /\ Exit(d)
    /\ UNCHANGED <<loc, n_run, n_queue, info, submit_ok>>

\* SIGKILL while rename_or_move is in the fallback: os.rename raised (the two
\* directories are on different filesystems) and shutil.move has copied the
\* file to the destination but not yet unlinked the source.
KillInMove(d) ==
    /\ pc[d] \in {"claim", "final"}
    /\ LET f == cur[d]
           src == IF pc[d] = "claim" THEN "job" ELSE "tmp"
           dst == IF pc[d] = "claim" THEN "tmp" ELSE dest[d]
       IN  /\ src \in loc[f]
           /\ loc' = [loc EXCEPT ![f] = @ \cup {dst}]
    /\ Exit(d)
    /\ UNCHANGED <<n_run, n_queue, info, submit_ok>>

\* main: a new process; Daemon.__init__ and the start of serve_forever.
Main(d) ==
    /\ pc[d] = "exited"
    /\ pc' = [pc EXCEPT ![d] = "full"]
    /\ exc' = [exc EXCEPT ![d] = None]
    /\ finalRaised' = [finalRaised EXCEPT ![d] = FALSE]
    /\ UNCHANGED <<loc, jobs, cur, dest, submitted, free, queue_status, ret,
                   n_run, n_queue, info, arg, submit_ok, claimRes, verdict>>

----------------------------------------------------------------------------
(* One daemon: serve_forever, reconfigure, upgrade, cleanup (SpecLoop)     *)

MaxCycles == 3

NO_CONFIG_SHUTDOWN_SEC == 3600

\* What the configuration file can hold: the users list, the limits, the
\* sleep time and the command of the [Commands] section if any.
BaseConfig ==
    [users |-> {"u1", "u2"}, n_run |-> 1, n_queue |-> 1, sleep |-> 1,
     command |-> None]

Contents ==
    { BaseConfig,
      [BaseConfig EXCEPT !.n_run = MaxLimit, !.n_queue = MaxLimit,
                         !.sleep = NO_CONFIG_SHUTDOWN_SEC],
      [BaseConfig EXCEPT !.users = {"u2"}],
      [BaseConfig EXCEPT !.command = "shutdown"],
      [BaseConfig EXCEPT !.command = "upgrade"] }

\* The configuration file: os.stat finds it ("ok"), finds nothing (ENOENT,
\* "missing") or fails otherwise ("denied"); whether it can be opened for
\* reading; its mtime and content.
NoConfig(stat) ==
    [stat |-> stat, readable |-> FALSE, mtime |-> 0, text |-> BaseConfig]

\* The Daemon object after __init__ and the start of serve_forever, which
\* have read the content `text` of a file of mtime 0 at time 0.
NewDaemon(text) ==
    [pc |-> "full", cycles |-> 0,
     config_file_mtime |-> 0, configured |-> TRUE, config_last_seen |-> 0,
     users |-> text.users, n_run |-> text.n_run, n_queue |-> text.n_queue,
     sleep |-> text.sleep, qstat |-> [stale_sec |-> text.sleep - 1, obj |-> 0],
     upgrade_kind |-> None, pid_fpath |-> "pid", cleaned |-> FALSE,
     fds |-> "open", exn |-> None]

\* The fields reconfigure derives from the configuration file.
ConfigValues(d) ==
    [users |-> d.users, n_run |-> d.n_run, n_queue |-> d.n_queue,
     sleep |-> d.sleep, qstat |-> d.qstat]

\* reconfigure: "if config_file_mtime <= self.config_file_mtime: return".
ConfigIsNew(file_mtime, recorded) == ~(file_mtime <= recorded)

\* reconfigure: "if dt_sec > NO_CONFIG_SHUTDOWN_SEC: ... sys.exit(1)".
GraceIsOver(dt_sec) == dt_sec > NO_CONFIG_SHUTDOWN_SEC

\* reconfigure from the ConfigParser on: the object after it, the exception
\* it raised if any.  An unreadable file leaves an empty parser, and then
\* either sys.exit(1) (not configured) or, after "Returning to normal
\* operation", the get of the Users section raises.
Reread(d, file, t) ==
    LET text == file.text
        d1 == [d EXCEPT !.users = text.users]
        d2 == [d1 EXCEPT !.n_run = text.n_run, !.n_queue = text.n_queue,
                         !.sleep = text.sleep,
                         !.qstat = [stale_sec |-> text.sleep - 1,
                                    obj |-> d.qstat.obj + 1]]
        d3 == [d2 EXCEPT !.upgrade_kind =
                            IF text.command = "upgrade" THEN "auto" ELSE @]
        d4 == [d3 EXCEPT !.config_file_mtime = file.mtime,
                         !.configured = TRUE]
    IN  IF ~file.readable
        THEN [d |-> d, exn |-> IF d.configured THEN "NoSectionError"
                               ELSE "SystemExit"]
        ELSE IF "u1" \notin text.users
        THEN [d |-> d1, exn |-> "TypeError"]
        ELSE IF text.command = "shutdown"
        THEN [d |-> d2, exn |-> "SystemExit"]
        ELSE [d |-> d4, exn |-> None]

\* Daemon.reconfigure at time t: the object after it, the exception it
\* raised if any, whether it read the file again, and how it took a
\* missing file ("none" when the file was not missing).
Reconfigure(d, file, t) ==
    IF file.stat = "missing" /\ d.configured
    THEN IF GraceIsOver(t - d.config_last_seen)
         THEN [d |-> d, exn |-> "SystemExit", reread |-> FALSE,
               miss |-> "exit"]
         ELSE [d |-> d, exn |-> None, reread |-> FALSE, miss |-> "tolerated"]
    ELSE IF file.stat # "ok"
    THEN [d |-> d, exn |-> "OSError", reread |-> FALSE, miss |-> "none"]
    ELSE LET d1 == [d EXCEPT !.config_last_seen = t] IN
         IF ~ConfigIsNew(file.mtime, d.config_file_mtime)
         THEN [d |-> d1, exn |-> None, reread |-> FALSE, miss |-> "none"]
         ELSE LET r == Reread(d1, file, t)
              IN  [d |-> r.d, exn |-> r.exn, reread |-> TRUE, miss |-> "none"]

\* The ~/.pid file holds this daemon's pid ("mine"), another's ("other"),
\* or is not there ("none"); `bak` tells whether ~/.pid.bak is there.
NewPidFiles == [pid |-> "mine", bak |-> FALSE]

\* Daemon.cleanup: the object and the pid files after it, the exception it
\* raised if any (os.remove of a file that is not there).
Cleanup(d, pf) ==
    IF d.cleaned THEN [d |-> d, pf |-> pf, exn |-> None]
    ELSE IF d.pid_fpath # None /\ pf.pid = "none"
    THEN [d |-> d, pf |-> pf, exn |-> "OSError"]
    ELSE [d |-> [d EXCEPT !.cleaned = TRUE, !.fds = "closed"],
          pf |-> IF d.pid_fpath # None THEN [pf EXCEPT !.pid = "none"] ELSE pf,
          exn |-> None]

\* How one call of upgrade can end.  Without an upgrade command it returns
\* at once; with one it may return before touching anything (not frozen,
\* no distfile, nothing newer), fail in the backup, fail to start
\* deploy.sh, see deploy.sh fail and revert, fail in the revert after the
\* pid file is back, or see deploy.sh start the new daemon and exit.
UpgradeOutcomes(d) ==
    IF d.upgrade_kind = None THEN {"return"}
    ELSE {"return", "backup_error", "deploy_oserror", "reverted",
          "revert_error", "upgraded"}

\* Daemon.upgrade: the pid file is moved to ~/.pid.bak and self.pid_fpath
\* set to None before deploy.sh runs, and set back at the end of the revert.
Upgrade(d, pf, oc) ==
    LET moved == [d EXCEPT !.pid_fpath = None] IN
    IF oc = "return" THEN [d |-> d, pf |-> pf, exn |-> None]
    ELSE IF oc = "backup_error" THEN [d |-> d, pf |-> pf, exn |-> "OSError"]
    ELSE IF oc = "deploy_oserror"
    THEN [d |-> moved, pf |-> [pid |-> "none", bak |-> TRUE], exn |-> "OSError"]
    ELSE IF oc = "reverted"
    THEN [d |-> d, pf |-> [pid |-> "mine", bak |-> FALSE], exn |-> None]
    ELSE IF oc = "revert_error"
    THEN [d |-> moved, pf |-> [pid |-> "mine", bak |-> TRUE], exn |-> "OSError"]
    ELSE [d |-> moved, pf |-> [pid |-> "other", bak |-> FALSE],
          exn |-> "SystemExit"]

\* The order of the statements in the body of serve_forever's loop.
StepAfter(pos, full) ==
    IF pos = "full" THEN AfterFull(full)
    ELSE IF pos = "scan" THEN "sleep"
    ELSE IF pos = "sleep" THEN "reconfigure"
    ELSE IF pos = "reconfigure" THEN "upgrade"
    ELSE "full"

\* `removed` counts the removals of the pid file by the cleanup calls of
\* the step, `idle2` tells that the second of two cleanup calls returned
\* without raising and left the object and the files as they were.
NoLoopLog ==
    [snap |-> <<>>, reread |-> FALSE, miss |-> "none", dt |-> 0,
     raised |-> None, cleanups |-> 0, worked |-> FALSE,
     removed |-> 0, idle2 |-> FALSE]

\* The removals of the pid file one call of cleanup makes.
Removals(d, pf) ==
    IF ~d.cleaned /\ d.pid_fpath # None /\ pf.pid # "none" THEN 1 ELSE 0

\* What a step that is not a reconfigure leaves of the history.
Logged(snap) == [NoLoopLog EXCEPT !.snap = snap]

LoopIdle ==
    /\ clk = 0
    /\ cfg = NoConfig("missing")
    /\ dm = [NewDaemon(BaseConfig) EXCEPT !.pc = "exited"]
    /\ pidf = NewPidFiles
    /\ lg = NoLoopLog

\* "except: self.cleanup(); raise": the exception e leaves serve_forever
\* and the process ends, open descriptors or not.
Escape(d, pf, e, snap) ==
    LET c == Cleanup(d, pf) IN
    /\ dm' = [c.d EXCEPT !.pc = "exited",
                         !.exn = IF c.exn # None THEN c.exn ELSE e]
    /\ pidf' = c.pf
    /\ lg' = [Logged(snap) EXCEPT !.raised = e, !.cleanups = 1,
                                  !.removed = Removals(d, pf)]

\* serve_forever goes on to its next statement.
GoOn(d, full) ==
    dm' = [d EXCEPT !.pc = StepAfter(dm.pc, full),
                    !.cycles = IF StepAfter(dm.pc, full) = "full"
                               THEN @ + 1 ELSE @]

\* "if self.full": it raises, or says full or not; the values of the
\* configuration the cycle starts with are noted.
LoopFull ==
    /\ dm.pc = "full"
    /\ dm.cycles < MaxCycles
    /\ \E oc \in {"raise", "full", "notfull"} :
         IF oc = "raise"
         THEN Escape(dm, pidf, "Exception", ConfigValues(dm))
         ELSE /\ GoOn(dm, oc = "full")
              /\ lg' = Logged(ConfigValues(dm))
              /\ UNCHANGED pidf
    /\ UNCHANGED <<clk, cfg>>

\* do_some_work: it returns, or an exception leaves it.
LoopWork ==
    /\ dm.pc = "scan"
    /\ \E oc \in {"raise", "return"} :
         IF oc = "raise"
         THEN Escape(dm, pidf, "Exception", lg.snap)
         ELSE /\ GoOn(dm, FALSE)
              /\ lg' = [Logged(lg.snap) EXCEPT !.worked = TRUE]
              /\ UNCHANGED pidf
    /\ UNCHANGED <<clk, cfg>>

\* sleep(self.sleep): at least that long.
LoopSleep ==
    /\ dm.pc = "sleep"
    /\ \E late \in {0, 1} : clk' = clk + dm.sleep + late
    /\ GoOn(dm, FALSE)
    /\ lg' = Logged(lg.snap)
    /\ UNCHANGED <<cfg, pidf>>

\* self.reconfigure()
LoopReconfigure ==
    /\ dm.pc = "reconfigure"
    /\ LET r == Reconfigure(dm, cfg, clk)
           seen == [reread |-> r.reread, miss |-> r.miss,
                    dt |-> IF r.miss = "none" THEN 0
                           ELSE clk - dm.config_last_seen]
       IN  IF r.exn # None
           THEN LET c == Cleanup(r.d, pidf) IN
                /\ dm' = [c.d EXCEPT !.pc = "exited",
                                     !.exn = IF c.exn # None THEN c.exn
                                             ELSE r.exn]
                /\ pidf' = c.pf
                /\ lg' = [Logged(lg.snap) EXCEPT !.reread = seen.reread,
                             !.miss = seen.miss, !.dt = seen.dt,
                             !.raised = r.exn, !.cleanups = 1]
           ELSE /\ GoOn(r.d, FALSE)
                /\ lg' = [Logged(lg.snap) EXCEPT !.reread = seen.reread,
                             !.miss = seen.miss, !.dt = seen.dt]
                /\ UNCHANGED pidf
    /\ UNCHANGED <<clk, cfg>>

\* self.upgrade()
LoopUpgrade ==
    /\ dm.pc = "upgrade"
    /\ \E oc \in UpgradeOutcomes(dm) :
         LET u == Upgrade(dm, pidf, oc) IN
         IF u.exn # None
         THEN Escape(u.d, u.pf, u.exn, lg.snap)
         ELSE /\ GoOn(u.d, FALSE)
              /\ pidf' = u.pf
              /\ lg' = Logged(lg.snap)
    /\ UNCHANGED <<clk, cfg>>

\* A handled signal with the object d and the pid files pf: sig_handler
\* runs cleanup and sys.exit, and the bare except of serve_forever runs
\* cleanup once more.
SigHandled(d, pf) ==
    LET c == Cleanup(d, pf)
        c2 == Cleanup(c.d, c.pf)
    IN  /\ dm' = [c2.d EXCEPT !.pc = "exited",
                      !.exn = IF c.exn # None THEN c.exn
                              ELSE IF c2.exn # None THEN c2.exn
                              ELSE "SystemExit"]
        /\ pidf' = c2.pf
        /\ lg' = [Logged(lg.snap) EXCEPT
                     !.raised = "SystemExit", !.cleanups = 2,
                     !.removed = Removals(d, pf) + Removals(c.d, c.pf),
                     !.idle2 = c2.exn = None /\ c2.d = c.d /\ c2.pf = c.pf]

\* The signal comes between two statements of the loop, or in the sleep.
LoopSignal ==
    /\ dm.pc \in {"full", "scan", "sleep", "reconfigure", "upgrade"}
    /\ SigHandled(dm, pidf)
    /\ UNCHANGED <<clk, cfg>>

\* The signal comes while upgrade waits for deploy.sh: the pid file has
\* been moved to ~/.pid.bak and self.pid_fpath is None.
LoopSignalInDeploy ==
    /\ dm.pc = "upgrade"
    /\ dm.upgrade_kind # None
    /\ SigHandled([dm EXCEPT !.pid_fpath = None],
                  [pid |-> "none", bak |-> TRUE])
    /\ UNCHANGED <<clk, cfg>>

\* Somebody writes the configuration file.
WriteConfig ==
    /\ dm.pc # "exited"
    /\ \E text \in Contents, readable \in BOOLEAN :
         /\ cfg' = [stat |-> "ok", readable |-> readable, mtime |-> clk,
                    text |-> text]
         /\ cfg' # cfg
    /\ lg' = Logged(lg.snap)
    /\ UNCHANGED <<clk, dm, pidf>>

\* Somebody removes the configuration file, or makes its directory
\* unsearchable.
LoseConfig ==
    /\ dm.pc # "exited"
    /\ \E stat \in {"missing", "denied"} :
         /\ cfg' = NoConfig(stat)
         /\ cfg' # cfg
    /\ lg' = Logged(lg.snap)
    /\ UNCHANGED <<clk, dm, pidf>>

----------------------------------------------------------------------------
(* The specifications                                                      *)

\* Every job file dropped in its owner's inbox, every daemon just started.
HandoffInit ==
    /\ loc = [f \in Files |-> {"job"}]
    /\ pc = [d \in Daemons |-> "full"]
    /\ jobs = [d \in Daemons |-> {}]
    /\ cur = [d \in Daemons |-> None]
    /\ dest = [d \in Daemons |-> "sub"]
    /\ submitted = [d \in Daemons |-> 0]
    /\ free = [d \in Daemons |-> 0]
    /\ queue_status = [d \in Daemons |-> NoStatus]
    /\ exc = [d \in Daemons |-> None]
    /\ ret = [d \in Daemons |-> FALSE]
    /\ n_run \in 1..MaxLimit
    /\ n_queue \in 1..MaxLimit
    /\ info = [f \in Files |-> {}]
    /\ arg = [d \in Daemons |-> <<>>]
    /\ submit_ok = [f \in Files |-> FALSE]
    /\ claimRes = [d \in Daemons |-> "none"]
    /\ finalRaised = [d \in Daemons |-> FALSE]
    /\ verdict = [d \in Daemons |-> "none"]

Init ==
    HandoffInit /\ FullIdle /\ CacheIdle /\ ParseIdle /\ PickIdle /\ LoopIdle

Handoff ==
    \E d \in Daemons :
        \/ FullCheck(d)
        \/ DoSomeWork(d)
        \/ Pick(d)
        \/ QsubClaim(d)
        \/ QsubSubmit(d)
        \/ QsubFinally(d)
        \/ Sleep(d)
        \/ SigHandler(d)
        \/ Kill(d)
        \/ KillInMove(d)
        \/ Main(d)

Next == Handoff /\ UNCHANGED <<fvars, cvars, pvars, kvars, lvars>>

Spec == Init /\ [][Next]_vars

\* The daemons while nothing stops them from outside: no signal, no kill.
\* What the steps themselves can do stays: the moves and the submit
\* command can fail, Daemon.full can raise.
LiveStep(d) ==
    \/ FullCheck(d)
    \/ DoSomeWork(d)
    \/ Pick(d)
    \/ QsubClaim(d)
    \/ QsubSubmit(d)
    \/ QsubFinally(d)
    \/ Sleep(d)

\* The pick of do_some_work drawing the file f.
PickOf(d, f) == Pick(d) /\ cur'[d] = f

InitLive ==
    /\ Init
    /\ n_run = 2
    /\ n_queue = 1

NextLive ==
    /\ \E d \in Daemons : LiveStep(d)
    /\ UNCHANGED <<fvars, cvars, pvars, kvars, lvars>>

\* A running daemon takes its next step; random.randint draws every index
\* again and again, so an entry that is in the list at the pick again and
\* again is drawn at some time.
SpecLive ==
    /\ InitLive
    /\ [][NextLive]_vars
    /\ \A d \in Daemons : WF_vars(LiveStep(d) /\ UNCHANGED <<fvars, cvars, pvars, kvars, lvars>>)
    /\ \A d \in Daemons : \A f \in Files :
          SF_vars(PickOf(d, f) /\ UNCHANGED <<fvars, cvars, pvars, kvars, lvars>>)

InitFull ==
    /\ HandoffInit
    /\ fin \in FullInputs
    /\ fout = NoOutcome
    /\ CacheIdle
    /\ ParseIdle
    /\ PickIdle
    /\ LoopIdle

NextFull == EvalFull

SpecFull == InitFull /\ [][NextFull]_vars

InitCache ==
    /\ HandoffInit
    /\ n_run = 1
    /\ n_queue = 1
    /\ FullIdle
    /\ now = 0
    /\ stale_sec \in 0..MaxStale
    /\ qs = NewQstat
    /\ xml_file = <<>>
    /\ jobs_file = <<>>
    /\ xlog = NoLog
    /\ jlast = NoJobsAccess
    /\ fres = NoFullAccess
    /\ ParseIdle
    /\ PickIdle
    /\ LoopIdle

NextCache ==
    /\ \/ Tick
       \/ Construct
       \/ XmlAccess
       \/ JobsAccess
       \/ FullAccess
    /\ UNCHANGED <<hvars, fvars, pvars, kvars, lvars>>

SpecCache == InitCache /\ [][NextCache]_vars

InitParse ==
    /\ HandoffInit
    /\ n_run = 1
    /\ n_queue = 1
    /\ FullIdle
    /\ CacheIdle
    /\ pin \in RawLists
    /\ pout = NoParse
    /\ PickIdle
    /\ LoopIdle

NextParse == EvalParse

SpecParse == InitParse /\ [][NextParse]_vars

InitPick ==
    /\ HandoffInit
    /\ n_run = 1
    /\ n_queue = 1
    /\ FullIdle
    /\ CacheIdle
    /\ ParseIdle
    /\ kin \in Pools
    /\ kout = NoPick
    /\ ScanIdle
    /\ MoveIdle
    /\ LoopIdle

NextPick == EvalPick

SpecPick == InitPick /\ [][NextPick]_vars

InitScan ==
    /\ HandoffInit
    /\ n_run = 1
    /\ n_queue = 1
    /\ FullIdle
    /\ CacheIdle
    /\ ParseIdle
    /\ kin = <<>>
    /\ kout = NoPick
    /\ sin \in ScanInputs
    /\ sout = NoScan
    /\ MoveIdle
    /\ LoopIdle

NextScan == EvalScan \/ ScanLoop

InitMove ==
    /\ HandoffInit
    /\ n_run = 1
    /\ n_queue = 1
    /\ FullIdle
    /\ CacheIdle
    /\ ParseIdle
    /\ kin = <<>>
    /\ kout = NoPick
    /\ ScanIdle
    /\ movin \in MoveInputs
    /\ movout = NoMove
    /\ LoopIdle

NextMove == EvalMove

SpecMove == InitMove /\ [][NextMove]_vars

\* do_some_work is one call in one thread: it goes on while it can.
SpecScan == InitScan /\ [][NextScan]_vars /\ WF_vars(NextScan)

\* The daemon has been constructed and has entered its loop with the
\* configuration file as it was written at time 0.
InitLoop ==
    /\ HandoffInit
    /\ n_run = 1
    /\ n_queue = 1
    /\ FullIdle
    /\ CacheIdle
    /\ ParseIdle
    /\ PickIdle
    /\ clk = 0
    /\ \E text \in {t \in Contents : "u1" \in t.users /\ t.command = None} :
         /\ cfg = [stat |-> "ok", readable |-> TRUE, mtime |-> 0,
                   text |-> text]
         /\ dm = NewDaemon(text)
    /\ pidf = NewPidFiles
    /\ lg = NoLoopLog

NextLoop ==
    /\ \/ LoopFull
       \/ LoopWork
       \/ LoopSleep
       \/ LoopReconfigure
       \/ LoopUpgrade
       \/ LoopSignal
       \/ LoopSignalInDeploy
       \/ WriteConfig
       \/ LoseConfig
    /\ UNCHANGED <<hvars, fvars, cvars, pvars, kvars>>

SpecLoop == InitLoop /\ [][NextLoop]_vars

----------------------------------------------------------------------------
(* The hand-off protocol: properties checked under Spec                    *)

\* C1: a job file is in the owner's submitted directory only if the submit
\* command was invoked on it and exited successfully, whatever way qsub was
\* left after a successful claim.
C1_SubmittedOnlyAfterSuccess ==
    \A f \in Files : "sub" \in loc[f] => submit_ok[f]

\* C2: a job file orphaned in a staging directory is taken up by the next
\* hand-off cycle: the scan of do_some_work puts every orphaned staged file
\* into the pool of candidates.
C2_OrphansRescanned ==
    [][ \A d \in Daemons :
          (pc[d] = "scan" /\ pc'[d] \in {"pick", "sleep"})
          => \A f \in Files : Orphaned(f) => f \in jobs'[d] ]_vars

\* C3: of the daemons that try to claim the same pending file at most one is
\* past the claim move at a time, and it is one whose move succeeded; a
\* daemon whose claim move failed has returned False from qsub and is out
\* of do_some_work, so it never runs the submit command on that file.
C3_OneClaimWins ==
    /\ \A f \in Files :
         Cardinality({ d \in Daemons : pc[d] \in InQsub /\ cur[d] = f }) <= 1
    /\ \A d \in Daemons :
         /\ pc[d] \in InQsub => claimRes[d] = "won" /\ "tmp" \in loc[cur[d]]
         /\ claimRes[d] \in {"lost", "fault"} => pc[d] = "sleep" /\ ~ret[d]

\* C3 happens: one daemon lost the race for a file that the other holds.
C3_Witness ==
    \E d1 \in Daemons, d2 \in Daemons :
        /\ d1 # d2
        /\ claimRes[d1] = "lost"
        /\ pc[d2] \in InQsub /\ cur[d2] = cur[d1] /\ claimRes[d2] = "won"

\* C6: in a cycle whose admission check said full (a cache error included)
\* the daemon is in neither do_some_work nor qsub: it only goes to sleep.
C6_NoWorkWhenFull ==
    \A d \in Daemons :
        /\ verdict[d] = "full" => pc[d] = "sleep"
        /\ pc[d] \in {"scan", "pick", "claim", "submit", "final"}
             => verdict[d] = "notfull"

\* C6 happens: a daemon found the queue full while a job file was pending.
C6_Witness ==
    \E d \in Daemons :
        /\ verdict[d] = "full" /\ pc[d] = "sleep"
        /\ \E f \in Files : "job" \in loc[f]

\* C10: when the submit command exited non-zero, the final move of qsub goes
\* to the original inbox path and qsub returns False: after it the file is
\* in the inbox and nowhere else, unless that move itself raised.
C10_RollbackOnNonZeroExit ==
    [][ \A d \in Daemons :
          (pc[d] = "final" /\ exc[d] = None /\ ~ret[d] /\ pc'[d] \notin {"final", "exited"})
          => /\ pc'[d] = "sleep" /\ ~ret'[d]
             /\ finalRaised'[d] \/ loc'[cur[d]] = {"job"} ]_vars

\* C10 happens: qsub returned False after a non-zero exit and the file is
\* back in the inbox.
C10_Witness ==
    \E d \in Daemons :
        /\ pc[d] = "sleep" /\ claimRes[d] = "won" /\ ~ret[d]
        /\ ~finalRaised[d] /\ loc[cur[d]] = {"job"}

----------------------------------------------------------------------------
(* Daemon.full: properties checked under SpecFull and SpecCache            *)

\* C4: Daemon.full never lets an exception out, and when either of its two
\* reads of qstat.jobs fails it returns True.
C4_FullNeverRaises ==
    fres.real =>
        /\ ~fres.raised
        /\ (fres.exn1 # None \/ fres.exn2 # None) => fres.val

\* The records of a list that count as running resp. queued for user me.
Counted(recs, me, st) ==
    { i \in DOMAIN recs :
        /\ recs[i].cluster = "aci" /\ recs[i].queue = "open"
        /\ recs[i].job_owner = me /\ recs[i].job_state = st }

\* C5: on a record list, Daemon.full is True iff the running records of the
\* daemon's user on aci/open are at least n_run or its queued ones at least
\* n_queue.
C5_FullIffLimitReached ==
    (fout.done /\ ~fin.read1.raised /\ ~fin.read2.raised) =>
        /\ ~fout.raised
        /\ fout.val <=>
             \/ Cardinality(Counted(fin.read2.recs, fin.me, "R")) >= n_run
             \/ Cardinality(Counted(fin.read2.recs, fin.me, "Q")) >= n_queue

\* C5 happens at the tie: running = n_run with nothing queued gave True.
C5_Witness ==
    /\ fout.done /\ ~fin.read1.raised /\ ~fin.read2.raised
    /\ Cardinality(Counted(fin.read2.recs, fin.me, "R")) = n_run
    /\ Cardinality(Counted(fin.read2.recs, fin.me, "Q")) = 0
    /\ Len(fin.read2.recs) > n_run
    /\ fout.val

----------------------------------------------------------------------------
(* The cache: properties checked under SpecCache                           *)

\* The step ended with an access of the xml property that was made within
\* stale_sec of the access before it, by the same object and with _xml not
\* set to None in between.
InWindow ==
    /\ stale_sec > 0
    /\ xlog.pair.real
    /\ ~xlog.pair.inval
    /\ xlog.pair.gap < stale_sec

C8_RecordsFileNeedsFreshSnapshotFile ==
    (jlast.real /\ jlast.src = "file") => jlast.xfresh

\* C8 happens: the jobs cache file was younger than stale_sec, the xml
\* cache file stale or missing, and the records were not taken from the file.
C8_Witness ==
    /\ jlast.real /\ jlast.jfresh /\ ~jlast.xfresh
    /\ jlast.src = "parse"

\* C9: a record list the jobs property returns derives from an output that
\* `qstat -x` produced less than stale_sec before the return.
C9_RecordsWithinBudget ==
    (jlast.real /\ jlast.exn = None /\ stale_sec > 0)
        => jlast.age < stale_sec

----------------------------------------------------------------------------
(* The hand-off protocol, continued: properties checked under Spec         *)

\* C11: once the submit command has run to its end on a job file, exit 0 or
\* not, a record of its output is in the owner's info directory.
C11_OutputRecorded ==
    \A d \in Daemons :
        (pc[d] = "final" /\ exc[d] = None) => info[cur[d]] # {}

\* C12: whenever a daemon process ends, at any point of qsub, every job file
\* is in exactly one of its owner's inbox, staging and submitted directories.
C12_ExactlyOnePlace ==
    \A f \in Files : Cardinality(loc[f]) = 1

C14_LostRaceTriesAnother ==
    [][ \A d \in Daemons :
          (/\ pc[d] = "claim" /\ claimRes'[d] = "lost"
           /\ jobs[d] # {} /\ submitted[d] < free[d])
          => pc'[d] = "pick" /\ submitted'[d] = submitted[d] ]_vars

\* The job files daemon d has handed to the submit command with success in
\* its current cycle: those counted, and the one whose qsub call is ending.
Handed(d) ==
    submitted[d] + (IF pc[d] = "final" /\ ret[d] THEN 1 ELSE 0)

\* C15: in one cycle a daemon hands at most free = n_run - running job files
\* to the submit command with success, running being the count its
\* admission check recorded.
C15_AtMostFreeSubmissions ==
    \A d \in Daemons :
        pc[d] \in {"pick", "claim", "submit", "final"} =>
            /\ verdict[d] = "notfull"
            /\ free[d] = n_run - queue_status[d].r
            /\ Handed(d) <= free[d]

\* C15 happens: the daemon has used up free with candidates left in its pool.
C15_Witness ==
    \E d \in Daemons :
        /\ pc[d] = "pick" /\ free[d] >= 1
        /\ submitted[d] = free[d] /\ jobs[d] # {}

\* C16: once a claim move of a daemon has failed, the daemon makes no other
\* attempt in that cycle: it has dropped its pool, it is at sleep, and its
\* next position is the next cycle or the end of the process.
C16_StopAfterFailedClaim ==
    [][ \A d \in Daemons :
          /\ claimRes'[d] \in {"lost", "fault"}
               => pc'[d] = "sleep" /\ jobs'[d] = {}
          /\ claimRes[d] \in {"lost", "fault"}
               => pc'[d] \in {"sleep", "full", "exited"} ]_vars

\* C16 happens: a claim move failed with the file still in the inbox, and
\* the daemon is at sleep while another candidate is pending.
C16_Witness ==
    \E d \in Daemons :
        /\ claimRes[d] = "fault" /\ pc[d] = "sleep"
        /\ \E f \in Files : f # cur[d] /\ "job" \in loc[f]

----------------------------------------------------------------------------
(* The cache, continued: properties checked under SpecCache                *)

\* C17: when parse_xml fails on a malformed snapshot, the jobs property
\* tries again, and the parse error reaches the caller only after
\* MAX_ATTEMPTS attempts.
C17_MalformedRetried ==
    (jlast.real /\ jlast.exn = "ParseError")
        => jlast.attempts = MAX_ATTEMPTS

\* C18: a read of the jobs property in which `qstat -x` last exited
\* non-zero or printed nothing raises and leaves no record list in memory;
\* and no record list, in memory or on disk, is ever empty (every listing
\* of the model that parses holds a job).
C18_CommandFailurePropagated ==
    /\ (jlast.real /\ jlast.calls > 0
          /\ jlast.out \in {"CalledProcessError", "empty"})
           => jlast.exn # None /\ qs.jobs = <<>>
    /\ qs.jobs # <<>> => qs.jobs[1].recs # <<>>
    /\ jobs_file # <<>> => jobs_file[1].data.recs # <<>>

\* C18 happens: a read ran `qstat -x`, got nothing, and raised.
C18_Witness ==
    /\ jlast.real /\ jlast.calls > 0 /\ jlast.out = "empty"
    /\ jlast.exn = "ParseError" /\ qs.jobs = <<>>

\* C19: there is no object for another user without a cache directory, the
\* construction of one raises; an object for another user never runs
\* `qstat -x`, and a read of its jobs property that finds neither a fresh
\* xml cache file nor a fresh value in memory raises ValueError.
C19_ForeignNeverRunsQstat ==
    /\ qs.foreign => qs.cache_dir
    /\ (qs.foreign /\ xlog.last.real) => xlog.last.calls = 0
    /\ (qs.foreign /\ jlast.real) =>
          /\ jlast.calls = 0
          /\ (~jlast.xfresh /\ ~jlast.mfresh) => jlast.exn = "ValueError"

\* C19 happens: a read through an object for another user finds a stale
\* xml cache file and raises.
C19_Witness ==
    /\ qs.foreign /\ jlast.real /\ jlast.exn = "ValueError"
    /\ xml_file # <<>> /\ ~jlast.xfresh

----------------------------------------------------------------------------
(* parse_xml: properties checked under SpecParse                           *)

\* The accounts of the table.
KnownAccount(job) ==
    job.account_name \in {"cyberlamp", "dfc13_a_g_sc_default",
                          "dfc13_a_t_bc_default", "open"}

\* The (cluster, queue) pair of a job by the table: account cyberlamp is
\* cluster cyberlamp, queue default, or the qos when the server name ends
\* with aci.ics.psu.edu and there is a qos; an account of ACI_QUEUES is
\* cluster aci, queue the account.
TablePair(job) ==
    IF job.account_name = "cyberlamp"
    THEN IF /\ job.server = "torque01.util.production.int.aci.ics.psu.edu"
            /\ job.resource_list \notin {<<>>, << None >>}
         THEN <<"cyberlamp", job.resource_list[1]>>
         ELSE <<"cyberlamp", "default">>
    ELSE <<"aci", job.account_name>>

\* C20: parse_xml on a listing all of whose accounts are known returns one
\* record per job, in order, each with the (cluster, queue) pair of the
\* table; on a listing with any other account it raises ValueError and
\* returns no list.
C20_ClusterQueueByTable ==
    pout.done =>
        IF \A i \in 1..Len(pin) : KnownAccount(pin[i])
        THEN /\ pout.exn = None
             /\ Len(pout.val) = Len(pin)
             /\ \A i \in 1..Len(pin) :
                   <<pout.val[i].cluster, pout.val[i].queue>> = TablePair(pin[i])
        ELSE pout.exn = "ValueError" /\ pout.val = <<>>

\* C20 happens: a listing of two jobs, a cyberlamp job whose queue is its
\* qos and an ACI job, is parsed.
C20_Witness ==
    /\ pout.done /\ pout.exn = None /\ Len(pin) = 2
    /\ pout.val[1] = [cluster |-> "cyberlamp", queue |-> "cl_gpu"]
    /\ pout.val[2] = [cluster |-> "aci", queue |-> "open"]

----------------------------------------------------------------------------
(* The cache in one wake cycle: properties checked under SpecCache         *)

\* C21: when Daemon.full reads self.qstat.jobs twice, the second read does
\* not run `qstat -x` and returns the record list of the first, unless the
\* retry loop set _xml to None in it.
C21_OneSnapshotPerCycle ==
    (fres.real /\ fres.reads = 2 /\ jlast.attempts <= 1)
        => jlast.calls = 0 /\ fres.same

----------------------------------------------------------------------------
(* Signals, picks and cycles: properties checked under Spec                *)

\* C22: SystemExit of sig_handler is never raised inside a qsub call (from
\* the claim move to the final move), and a qsub call that is being left
\* with SystemExit moves its file nowhere.
C22_SignalWaitsForHandoff ==
    [][ \A d \in Daemons :
          /\ (exc'[d] = "SystemExit" /\ exc[d] # "SystemExit")
                => pc[d] \notin {"claim", "submit", "final"}
          /\ (pc[d] = "final" /\ exc[d] = "SystemExit")
                => loc'[cur[d]] = loc[cur[d]] ]_vars

----------------------------------------------------------------------------
(* One pick: properties checked under SpecPick                             *)

\* C23: of the n equally likely outcomes of randint(0, n - 1) exactly one
\* pops each entry of the list, so every entry is picked with probability
\* 1/n; the pick takes that entry out of the list and leaves the others as
\* they were.
C23_EveryEntryOneOutcome ==
    LET n == Len(kin)
        outcomes == RandInt(0, n - 1)
    IN  /\ Cardinality(outcomes) = n
        /\ \A i \in 1..n :
              Cardinality({ idx \in outcomes : Pop(kin, idx).item = kin[i] }) = 1
        /\ kout.done =>
              /\ kout.item = kin[kout.idx + 1]
              /\ Len(kout.rest) = n - 1
              /\ \A i \in 1..n :
                    i # kout.idx + 1 <=>
                        \E k \in 1..(n - 1) : kout.rest[k] = kin[i]

\* C23 happens: four users hold one pending job each, and the job of the
\* last user is picked.
C23_Witness ==
    /\ kin = << <<"u1", 1>>, <<"u2", 1>>, <<"u3", 1>>, <<"u4", 1>> >>
    /\ kout.done /\ kout.item = <<"u4", 1>>

----------------------------------------------------------------------------
(* The loop and the configuration: properties checked under SpecLoop       *)

\* A step in which reconfigure ran to its end, by return or by exception.
ByReconfigure ==
    dm.pc = "reconfigure" /\ dm'.pc # "reconfigure" /\ lg'.cleanups # 2

\* C24: reconfigure reads the configuration file again iff the file is
\* there and its mtime is greater than the recorded one; when it does not,
\* users, n_run, n_queue, sleep and the QstatBase object stay as they are.
C24_RereadIffNewer ==
    [][ ByReconfigure =>
          /\ lg'.reread <=>
                (cfg.stat = "ok" /\ cfg.mtime > dm.config_file_mtime)
          /\ ~lg'.reread => ConfigValues(dm') = ConfigValues(dm) ]_vars

\* C24 happens: reconfigure has read a newer file and has gone on with new
\* values and a new QstatBase object.
C24_Witness ==
    /\ dm.pc = "upgrade" /\ lg.reread
    /\ dm.qstat.obj > 0 /\ dm.n_run # 1

\* C25: reconfigure of a configured daemon that finds the file missing
\* returns with nothing changed while the file was last seen at most
\* NO_CONFIG_SHUTDOWN_SEC ago, and ends the process with SystemExit when
\* it was last seen longer ago.
C25_MissingConfigGrace ==
    [][ (ByReconfigure /\ cfg.stat = "missing") =>
          IF clk - dm.config_last_seen <= 3600
          THEN /\ dm'.pc = "upgrade"
               /\ dm'.exn = None
               /\ ConfigValues(dm') = ConfigValues(dm)
               /\ dm'.config_file_mtime = dm.config_file_mtime
          ELSE dm'.pc = "exited" /\ dm'.exn = "SystemExit" ]_vars

\* C25 happens: the file has been missing for exactly the grace period and
\* the daemon goes on.
C25_Witness ==
    /\ lg.miss = "tolerated" /\ lg.dt = 3600
    /\ dm.pc = "upgrade" /\ dm.cycles > 0

\* C26: from the admission check to the end of the sleep of the same cycle
\* the values derived from the configuration are those the cycle began with.
C26_ConfigFixedInCycle ==
    dm.pc \in {"scan", "sleep"} => ConfigValues(dm) = lg.snap

\* C26 happens: the file is rewritten with other values while do_some_work
\* is under way.
C26_Witness ==
    /\ dm.pc = "scan" /\ cfg.stat = "ok" /\ cfg.readable
    /\ cfg.mtime > dm.config_file_mtime /\ cfg.text.n_run # dm.n_run

\* C27: a process that an exception leaving the loop has ended has run
\* cleanup, has closed its descriptors, has left no ~/.pid file of its own,
\* and stays ended.
C27_CleanupThenStop ==
    (dm.pc = "exited" /\ dm.exn # None)
        => dm.cleaned /\ dm.fds = "closed" /\ pidf.pid # "mine"

----------------------------------------------------------------------------
(* Quota and submit command: properties checked under Spec                 *)

\* C28: when a cycle's hand-off attempts are over, the queued jobs the
\* admission check counted for the daemon's user plus the jobs submitted in
\* the cycle are at most n_queue.
C28_QueuedWithinLimit ==
    \A d \in Daemons :
        (pc[d] = "sleep" /\ verdict[d] = "notfull")
            => queue_status[d].q + submitted[d] <= n_queue

\* C29: the submit command is run only by a qsub call whose claim move
\* went through, on the file that call holds, which is in the staging
\* directory, and its last argument is the path of the file there.
C29_SubmitOnStagedPath ==
    \A d \in Daemons :
        /\ pc[d] \in {"submit", "final"} =>
              claimRes[d] = "won" /\ "tmp" \in loc[cur[d]]
        /\ arg[d] # <<>> =>
              /\ pc[d] = "final" /\ claimRes[d] = "won"
              /\ arg[d] = <<"tmp", cur[d]>>
              /\ arg[d][1] \in loc[arg[d][2]]

\* C29 happens: a submit command has run on a staged file and exited 0.
C29_Witness ==
    \E d \in Daemons :
        /\ pc[d] = "final" /\ ret[d] /\ submitted[d] = 1
        /\ arg[d] # <<>> /\ arg[d][1] = "tmp" /\ arg[d][2] = cur[d]

----------------------------------------------------------------------------
(* Invalidation of the parsed records: checked under SpecCache             *)

\* C30: when a read of the xml property has assigned _xml, from the cache
\* file or from `qstat -x`, no parsed records are left in memory, and the
\* next read of the jobs property does not return its value from memory
\* (jlast alone is a read by a client; with fres it is the second read of
\* Daemon.full).
C30_RecordsClearedWithSnapshot ==
    [][ /\ xlog'.rep => qs'.jobs = <<>>
        /\ (xlog.rep /\ jlast'.real /\ ~fres'.real)
              => jlast'.src # "memory" ]_vars

\* C30 happens: a read of the xml property assigned _xml while records
\* that were not stale were in memory.
C30_Witness ==
    xlog.rep /\ xlog.had /\ qs.xml # <<>> /\ xlog.last.exn = None

----------------------------------------------------------------------------
(* The records file and its source: checked under SpecCache                *)

\* C31: when a read of the jobs property has parsed the snapshot again with
\* a cache directory, the jobs cache file has the mtime of the xml cache
\* file, and so is not younger on disk than the snapshot it was built from.
C31_RecordsFileMtimeOfSnapshotFile ==
    (jlast.real /\ jlast.src = "parse" /\ jlast.exn = None /\ qs.cache_dir)
        => /\ jobs_file # <<>>
           /\ xml_file # <<>>
           /\ jobs_file[1].mtime = xml_file[1].mtime

----------------------------------------------------------------------------
(* The main loop: further properties checked under SpecLoop                *)

\* C32: when the configuration file is newer than the one read but cannot
\* be read, a daemon configured before goes on with the cycle: reconfigure
\* raises nothing and every value read from the configuration is as it was.
C32_UnreadableConfigKeepsOld ==
    [][ (/\ ByReconfigure
         /\ dm.configured
         /\ cfg.stat = "ok" /\ cfg.mtime > dm.config_file_mtime
         /\ ~cfg.readable)
            => /\ dm'.exn = None
               /\ dm'.pc = "upgrade"
               /\ ConfigValues(dm') = ConfigValues(dm) ]_vars

----------------------------------------------------------------------------
(* Admission and do_some_work: checked under Spec                          *)

\* C38: do_some_work runs only in a cycle whose admission check said "not
\* full"; the counts in queue_status are those of that check, made in the
\* step that gave the verdict, and free = n_run - queue_status['r'] is 1 or
\* more.
C38_FreeAtLeastOne ==
    [][ \A d \in Daemons :
          /\ (pc'[d] = "scan" /\ pc[d] # "scan") =>
                /\ pc[d] = "full" /\ verdict'[d] = "notfull"
                /\ \E read \in ReadResults :
                      /\ ~read.raised
                      /\ queue_status'[d] =
                            CountJobs(read.recs, MyUserName(d),
                                      [q |-> 0, r |-> 0, o |-> 0])
          /\ pc'[d] \in {"scan", "pick", "claim", "submit", "final"} =>
                /\ verdict'[d] = "notfull"
                /\ n_run' - queue_status'[d].r >= 1
                /\ pc'[d] # "scan" =>
                      free'[d] = n_run' - queue_status'[d].r ]_vars

\* C38 happens: the loop of do_some_work is on with one job of the user
\* running and room for one more.
C38_Witness ==
    \E d \in Daemons :
        pc[d] = "pick" /\ queue_status[d].r = 1 /\ free[d] = 1 /\ n_run = 2

----------------------------------------------------------------------------
(* The scan and the loop of do_some_work: checked under SpecScan           *)

\* The regular files in the job directories, where there is one, of the
\* users of self.users.
FilesOfConfigured ==
    { <<sin.users[k], ScanNames[i]>> :
        <<k, i>> \in { p \in (1..Len(sin.users)) \X (1..Len(ScanNames)) :
                        /\ sin.tree[sin.users[p[1]]].isdir
                        /\ sin.tree[sin.users[p[1]]].entries[p[2]] = "file" } }

\* C33: the list do_some_work picks from holds the regular files in the job
\* directories of the users of self.users whose job directory exists, each
\* once, and nothing else; when the list is empty do_some_work returns
\* without a call of qsub, so that no file is moved or submitted.
C33_PoolIsFilesOfConfigured ==
    sout.pos # "start" =>
        /\ { sout.found[k] : k \in 1..Len(sout.found) } = FilesOfConfigured
        /\ Len(sout.found) = Cardinality(FilesOfConfigured)
        /\ sout.found = <<>> =>
              sout.early /\ sout.pos = "returned" /\ sout.tried = <<>>
        /\ sout.early => sout.found = <<>>

\* C33 happens: one user without a job directory, one with a file and a
\* directory in it, one whose job directory holds both files.
C33_Witness ==
    /\ sin.users = <<"u2", "u1", "u3">>
    /\ ~sin.tree["u2"].isdir
    /\ sin.tree["u1"].entries = <<"dir", "file">>
    /\ sin.tree["u3"].entries = <<"file", "file">>
    /\ sout.found = << <<"u1", "b.pbs">>, <<"u3", "a.pbs">>, <<"u3", "b.pbs">> >>
    /\ sout.pos = "loop"

\* The smaller of two numbers.
Least(a, b) == IF a <= b THEN a ELSE b

\* C37: do_some_work returns in the end; qsub is called at most
\* min(free, length of the list found) times, and never twice with the same
\* entry, each entry picked being one of the list found.
C37_LoopBoundedNoRepeat ==
    /\ [](/\ Len(sout.tried) <= Least(sin.free, Len(sout.found))
          /\ \A i, j \in 1..Len(sout.tried) :
                sout.tried[i] = sout.tried[j] => i = j
          /\ \A i \in 1..Len(sout.tried) :
                \E k \in 1..Len(sout.found) : sout.found[k] = sout.tried[i])
    /\ <>(sout.pos = "returned")

\* C37 happens: the loop has called qsub free = 2 times on a list of three
\* and has returned.
C37_Witness ==
    /\ sin.free = 2 /\ Len(sout.found) = 3
    /\ Len(sout.tried) = 2 /\ sout.submitted = 2
    /\ sout.pos = "returned"

----------------------------------------------------------------------------
(* The moves of qsub and the files of the owner: checked under SpecMove    *)

\* C34: a move of qsub destroys no job file: every job file there was under
\* the name in the owner's job, tmp and submitted directories before the
\* move is in one of them after it, also when the destination held a file
\* of that name.
C34_NoJobFileDestroyed ==
    movout.done =>
        \A v \in Contents3 \ {"none"} :
            (\E p \in Places : movin.dirs[p] = v)
                => (\E p \in Places : movout.dirs[p] = v)

----------------------------------------------------------------------------
(* One successful submission per file: checked under Spec                  *)

\* C35: once the submit command has exited 0 on a job file, the file is
\* not in a job directory again and no daemon runs the submit command on
\* it again, whether the final move went through or not.
C35_SubmittedOnce ==
    [][ /\ \A d \in Daemons :
              (pc[d] = "submit" /\ arg'[d] # <<>>) => ~submit_ok[cur[d]]
        /\ \A f \in Files : submit_ok'[f] => "job" \notin loc'[f] ]_vars

\* C35 happens: a file the submit command took was left in the tmp
\* directory by a failed final move, and a daemon is handing over another.
C35_Witness ==
    \E f \in Files, d \in Daemons :
        /\ submit_ok[f] /\ loc[f] = {"tmp"}
        /\ pc[d] = "submit" /\ cur[d] # f

----------------------------------------------------------------------------
(* No starvation of a pending file: checked under SpecLive                 *)

\* C36: if again and again a cycle is "not full", the submit command exits
\* 0 whenever it is run on a.pbs, and the claim move of a.pbs never fails
\* for a fault of the filesystem, then a.pbs, waiting in the job directory
\* of a user of self.users, is in the submitted directory in the end,
\* however often the submission of b.pbs fails.
C36_PendingFileSubmitted ==
    ( /\ []<>(\E d \in Daemons : pc[d] = "scan")
      /\ [](\A d \in Daemons :
              (pc[d] = "final" /\ cur[d] = "a.pbs") => ret[d])
      /\ [](\A d \in Daemons :
              cur[d] = "a.pbs" => claimRes[d] # "fault") )
        => <>("sub" \in loc["a.pbs"])

----------------------------------------------------------------------------
(* A failed refresh: checked under SpecCache                               *)

\* The step is an access of the xml property, by a client or from inside
\* the jobs property.
AccessStep ==
    xlog'.last.real /\ (xlog'.pair.real \/ ~xlog.last.real)

\* C39: an access in which `qstat -x` raised (a read of the xml or of the
\* jobs property, or the first read of Daemon.full) leaves the snapshot in memory
\* and its time stamp as they were, writes no cache file and leaves no
\* records in memory; the next read of the xml property does not return
\* the value in memory (it loads the cache file, runs the command or
\* raises), and the next read of the jobs property by a client does not
\* take its value from memory.
C39_FailedRefreshServesNothingStale ==
    [][ /\ (AccessStep /\ xlog'.last.exn = "CalledProcessError"
               /\ (fres'.real => fres'.reads = 1)) =>
              /\ qs'.xml = qs.xml /\ qs'.xml_mtime = qs.xml_mtime
              /\ xml_file' = xml_file /\ jobs_file' = jobs_file
              /\ qs'.jobs = <<>>
        /\ (AccessStep /\ xlog.last.real
               /\ xlog.last.exn = "CalledProcessError") =>
              /\ ~jlast'.real =>
                    xlog'.rep \/ xlog'.last.calls > 0 \/ xlog'.last.exn # None
              /\ (jlast'.real /\ ~fres'.real) => jlast'.src # "memory" ]_vars

\* C39 happens: `qstat -x` has just raised in an access that began with a
\* stale snapshot in memory, which is still there.
C39_Witness ==
    /\ xlog.last.real /\ xlog.last.exn = "CalledProcessError"
    /\ xlog.last.t = now
    /\ qs.xml # <<>> /\ now - qs.xml_mtime >= stale_sec /\ stale_sec > 0
    /\ qs.jobs = <<>>

----------------------------------------------------------------------------
(* Two calls of cleanup: checked under SpecLoop                            *)

\* C40: when sig_handler has run cleanup and raised SystemExit, and the
\* except clause of serve_forever has run cleanup again, the second call
\* has removed nothing and closed nothing, and the pid file has been
\* removed once.
C40_CleanupOnce ==
    (lg.cleanups = 2 /\ dm.exn = "SystemExit")
        => lg.idle2 /\ dm.cleaned /\ lg.removed = 1

====
